---- MODULE Spec2Model ----
(***************************************************************************)
(* Content search of the Google Workspace MCP server                       *)
(* (src/src/tools/drive_tools.py, src/src/auth.py, src/src/config.py).     *)
(*                                                                         *)
(* A Python str is a sequence of one-character strings; offsets are        *)
(* 0-based as in Python, sequence indices 1-based as in TLA+.              *)
(*                                                                         *)
(*   Spec      one tool invocation at a time of search_drive_by_content    *)
(*             or search_within_file_content, step by step                 *)
(*   SpecFind  _find_content_matches applied to every text, term and flag  *)
(*             combination within the bounds                               *)
(***************************************************************************)
EXTENDS Integers, Sequences, FiniteSets, TLC

VARIABLES
    pc,             \* position of the running invocation
    tool,           \* name of the invoked tool
    search_term,    \* argument search_term
    case_sensitive, \* argument case_sensitive
    use_regex,      \* argument use_regex
    folder_id,      \* argument folder_id ("None" when absent)
    max_results,    \* page size after defaulting
    token_json,     \* the token.json file
    query,          \* the query sent to files().list
    files,          \* candidates returned by files().list, or the file's metadata
    content_info,   \* per candidate: what _extract_file_content_for_search did
    search_results, \* the list search_results being built
    response,       \* what the invocation gave its caller
    calls,          \* remote calls issued by the invocation, with their outcomes
    content,        \* text handed to _find_content_matches
    matches,        \* spans returned by _find_content_matches
    args,           \* date and status arguments of a tasks tool
    tasks,          \* items returned by tasks().list
    snippet_len,    \* argument snippet_length of _generate_search_snippets
    snippet_list,   \* list returned by _generate_search_snippets
    auth_pc,        \* position of each thread inside get_credentials
    creds,          \* local variable creds of each thread in get_credentials
    in_flight,      \* ids of the documents whose media request has not returned
    env,            \* value of the environment variable DEFAULT_CALENDAR_IDS
    validated_calendar_ids, \* list returned by validate_calendar_ids
    all_events,     \* the list all_events of list_calendar_events
    store           \* the events each calendar of the remote service holds

vars == <<pc, tool, search_term, case_sensitive, use_regex, folder_id,
          max_results, token_json, query, files, content_info,
          search_results, response, calls, content, matches,
          args, tasks, snippet_len, snippet_list, auth_pc, creds,
          in_flight, env, validated_calendar_ids, all_events, store>>

(***************************************************************************)
(* Bounds                                                                  *)
(***************************************************************************)
MaxFiles == 2
MaxFindTermLen == 2
MaxFindContentLen == 3

\* all sequences over S of length at most n
RECURSIVE SeqsUpTo(_, _)
SeqsUpTo(S, n) ==
    IF n = 0 THEN {<<>>}
    ELSE LET shorter == SeqsUpTo(S, n - 1)
         IN  shorter \cup {Append(s, c) : s \in {t \in shorter : Len(t) = n - 1}, c \in S}

SetMin(S) == CHOOSE x \in S : \A y \in S : x <= y
Max2(a, b) == IF a >= b THEN a ELSE b
Min2(a, b) == IF a <= b THEN a ELSE b

(***************************************************************************)
(* Python str operations                                                   *)
(***************************************************************************)
Whitespace == {" "}

\* str.lower() of one character; U+0130 lowers to two code points
LowerChar(c) ==
    CASE c = "A" -> <<"a">>
      [] c = "Idot" -> <<"i", "dot">>
      [] OTHER -> <<c>>

RECURSIVE Lower(_)
Lower(s) == IF s = <<>> THEN <<>> ELSE LowerChar(Head(s)) \o Lower(Tail(s))

RECURSIVE LStrip(_)
LStrip(s) ==
    IF s # <<>> /\ Head(s) \in Whitespace THEN LStrip(Tail(s)) ELSE s

RECURSIVE RStrip(_)
RStrip(s) ==
    IF s # <<>> /\ s[Len(s)] \in Whitespace
    THEN RStrip(SubSeq(s, 1, Len(s) - 1)) ELSE s

Strip(s) == RStrip(LStrip(s))

\* s[a:b] for 0 <= a, b
Slice(s, a, b) ==
    LET hi == IF b > Len(s) THEN Len(s) ELSE b
    IN  IF a >= hi THEN <<>> ELSE SubSeq(s, a + 1, hi)

\* s.find(sub, start): lowest offset >= start where sub occurs, else -1
StrFind(s, sub, start) ==
    LET at == {p \in start..(Len(s) - Len(sub)) : Slice(s, p, p + Len(sub)) = sub}
    IN  IF at = {} THEN -1 ELSE SetMin(at)

(***************************************************************************)
(* re.compile and pattern.finditer, for patterns built from literal        *)
(* characters, the repeat "*" and the set opener "["                       *)
(***************************************************************************)
CompileError == <<[ch |-> "error", star |-> FALSE]>>

\* re.compile: "[" never closed is "unterminated character set", "*" with
\* nothing before it "nothing to repeat", "*" after "*" "multiple repeat"
RECURSIVE Compile(_)
Compile(p) ==
    IF p = <<>> THEN <<>>
    ELSE IF Head(p) \in {"[", "*"} THEN CompileError
    ELSE LET starred == Len(p) >= 2 /\ p[2] = "*"
             rest == Compile(IF starred THEN Tail(Tail(p)) ELSE Tail(p))
         IN  IF rest = CompileError THEN CompileError
             ELSE <<[ch |-> Head(p), star |-> starred]>> \o rest

CharEq(a, b, ignorecase) ==
    IF ignorecase THEN LowerChar(a) = LowerChar(b) ELSE a = b

\* length of the run of characters equal to ch from offset p
RECURSIVE Run(_, _, _, _)
Run(text, ch, p, ignorecase) ==
    IF p < Len(text) /\ CharEq(text[p + 1], ch, ignorecase)
    THEN 1 + Run(text, ch, p + 1, ignorecase) ELSE 0

\* the backtracking matcher: end offset of the first successful path of
\* atoms[k..] from offset p, -1 when none; a zero-width match at the start
\* offset is refused when must_advance
RECURSIVE MatchFrom(_, _, _, _, _, _, _)
RECURSIVE Backtrack(_, _, _, _, _, _, _, _)
MatchFrom(atoms, k, text, p, st, must_advance, ignorecase) ==
    IF k > Len(atoms)
    THEN IF must_advance /\ p = st THEN -1 ELSE p
    ELSE IF atoms[k].star
    THEN Backtrack(atoms, k, text, p, st, must_advance, ignorecase,
                   Run(text, atoms[k].ch, p, ignorecase))
    ELSE IF p < Len(text) /\ CharEq(text[p + 1], atoms[k].ch, ignorecase)
    THEN MatchFrom(atoms, k + 1, text, p + 1, st, must_advance, ignorecase)
    ELSE -1

\* greedy repeat: try n repetitions, then n-1, ... down to 0
Backtrack(atoms, k, text, p, st, must_advance, ignorecase, n) ==
    LET r == MatchFrom(atoms, k + 1, text, p + n, st, must_advance, ignorecase)
    IN  IF r # -1 THEN r
        ELSE IF n = 0 THEN -1
        ELSE Backtrack(atoms, k, text, p, st, must_advance, ignorecase, n - 1)

\* a scan that resumes one character after the start of each match
RECURSIVE FindIterOverlapping(_, _, _, _, _, _)
FindIterOverlapping(atoms, text, pos, must_advance, ignorecase, acc) ==
    LET hits == {s \in pos..Len(text) :
                    MatchFrom(atoms, 1, text, s, s, FALSE, ignorecase) # -1}
    IN  IF hits = {} THEN acc
        ELSE LET s == SetMin(hits)
                 e == MatchFrom(atoms, 1, text, s, s, FALSE, ignorecase)
             IN  FindIterOverlapping(atoms, text, s + 1, FALSE, ignorecase,
                                     Append(acc, <<s, e>>))

\* pattern.finditer: search from pos; after a match the next search starts
\* at its end, and must advance when the match was empty
RECURSIVE FindIter(_, _, _, _, _, _)
FindIter(atoms, text, pos, must_advance, ignorecase, acc) ==
    LET hits == {s \in pos..Len(text) :
                    MatchFrom(atoms, 1, text, s, s, must_advance /\ s = pos, ignorecase) # -1}
    IN  IF hits = {} THEN acc
        ELSE LET s == SetMin(hits)
                 e == MatchFrom(atoms, 1, text, s, s, must_advance /\ s = pos, ignorecase)
             IN  FindIter(atoms, text, e, e = s, ignorecase, Append(acc, <<s, e>>))

(***************************************************************************)
(* _find_content_matches                                                   *)
(***************************************************************************)
\* the while loop resuming after the end of each occurrence
RECURSIVE LiteralScanPastMatch(_, _, _, _, _)
LiteralScanPastMatch(content_text, search_text, term_len, start, acc) ==
    LET pos == StrFind(content_text, search_text, start)
    IN  IF pos = -1 THEN acc
        ELSE LiteralScanPastMatch(content_text, search_text, term_len,
                                  pos + Max2(1, Len(search_text)),
                                  Append(acc, <<pos, pos + term_len>>))

\* the while loop of the literal branch
RECURSIVE LiteralScan(_, _, _, _, _)
LiteralScan(content_text, search_text, term_len, start, acc) ==
    LET pos == StrFind(content_text, search_text, start)
    IN  IF pos = -1 THEN acc
        ELSE LiteralScan(content_text, search_text, term_len, pos + 1,
                         Append(acc, <<pos, pos + term_len>>))

LiteralMatches(text, term, cs) ==
    LET search_text == IF cs THEN term ELSE Lower(term)
        content_text == IF cs THEN text ELSE Lower(text)
    IN  LiteralScan(content_text, search_text, Len(term), 0, <<>>)

\* the except re.error branch
InvalidRegexMatches(text, term, cs) == LiteralMatches(text, term, cs)

FindContentMatches(text, term, cs, rx) ==
    IF rx
    THEN IF Compile(term) = CompileError
         THEN InvalidRegexMatches(text, term, cs)
         ELSE FindIter(Compile(term), text, 0, FALSE, ~cs, <<>>)
    ELSE LiteralMatches(text, term, cs)

(***************************************************************************)
(* _generate_search_snippets                                               *)
(***************************************************************************)
\* get_content_search_snippet_length() with the environment variable unset
SnippetLength == 200

\* the loop body reporting the span's offsets in the text as the offsets
\* in the snippet
SnippetAbsoluteOffsets(text, span, half_length) ==
    LET start == span[1]
        end == span[2]
        snippet_start == Max2(0, start - half_length)
        snippet_end == Min2(Len(text), end + half_length)
    IN  [text |-> Slice(text, snippet_start, snippet_end),
         match_start |-> start,
         match_end |-> end,
         original_start |-> start,
         original_end |-> end]

\* the body of the for loop: the snippet of one span
Snippet(text, span, half_length) ==
    LET start == span[1]
        end == span[2]
        snippet_start == Max2(0, start - half_length)
        snippet_end == Min2(Len(text), end + half_length)
    IN  [text |-> Slice(text, snippet_start, snippet_end),
         match_start |-> start - snippet_start,
         match_end |-> end - snippet_start,
         original_start |-> start,
         original_end |-> end]

\* the loop with the whole snippet_length taken on each side of the span
GenerateSearchSnippetsWholeLength(text, spans, snippet_length) ==
    [i \in 1..Len(spans) |-> Snippet(text, spans[i], snippet_length)]

GenerateSearchSnippets(text, spans, snippet_length) ==
    [i \in 1..Len(spans) |-> Snippet(text, spans[i], snippet_length \div 2)]

(***************************************************************************)
(* Text extraction.  A mime type is the sequence of the pieces the         *)
(* dispatch tests look at.  What the remote store answers to the media     *)
(* request of a document is its outcome: the decoded text, an HttpError,   *)
(* or another exception (transport, decoding, PDF parsing).                *)
(***************************************************************************)
GoogleDoc == <<"application/", "vnd.", "google-apps", ".document">>
Pdf == <<"application/", "pdf">>
TextPlain == <<"text/", "plain">>
TextCsv == <<"text/", "csv">>
Docx == <<"application/", "vnd.openxmlformats-officedocument.wordprocessingml.document">>

\* get_supported_content_search_types()
SupportedContentSearchTypes == <<GoogleDoc, Pdf, TextPlain, TextCsv, Docx>>

NoOutcome == [kind |-> "none", text |-> <<>>]
None == [kind |-> "None", text |-> <<>>]

\* "google-apps" in mime_type
IsGoogleApps(mime_type) == \E i \in 1..Len(mime_type) : mime_type[i] = "google-apps"
\* mime_type == "application/pdf"
IsPdf(mime_type) == mime_type = Pdf
\* mime_type.startswith("text/")
IsText(mime_type) == mime_type # <<>> /\ Head(mime_type) = "text/"

\* whether _extract_file_content_for_search issues a media request
Fetches(mime_type) == IsGoogleApps(mime_type) \/ IsPdf(mime_type) \/ IsText(mime_type)

\* export_media as text/plain, decoded; any exception gives None
ExtractGoogleAppsContent(outcome) ==
    IF outcome.kind = "text" THEN [kind |-> "str", text |-> outcome.text] ELSE None

\* get_media, then the text of each page followed by a newline (the
\* outcome's text is the text of a one-page document); any exception gives None
ExtractPdfContent(outcome) ==
    IF outcome.kind = "text" THEN [kind |-> "str", text |-> outcome.text \o <<"\n">>]
    ELSE None

\* get_media, decoded; any exception gives None
ExtractTextContent(outcome) ==
    IF outcome.kind = "text" THEN [kind |-> "str", text |-> outcome.text] ELSE None

NoMatches == [raised |-> "None", has_matches |-> FALSE, snippets |-> <<>>, match_count |-> 0]
Exceptions == {"HttpError", "Exception"}

\* the if/elif chain with the text test first
BranchTextFirst(mime_type) ==
    IF IsText(mime_type) THEN "text"
    ELSE IF IsGoogleApps(mime_type) THEN "google_apps"
    ELSE IF IsPdf(mime_type) THEN "pdf"
    ELSE "none"

\* the if/elif chain on the mime type: the extractor it selects
Branch(mime_type) ==
    IF IsGoogleApps(mime_type) THEN "google_apps"
    ELSE IF IsPdf(mime_type) THEN "pdf"
    ELSE IF IsText(mime_type) THEN "text"
    ELSE "none"

\* content after the dispatch; it stays None when no branch is taken
ExtractContent(mime_type, outcome) ==
    CASE Branch(mime_type) = "google_apps" -> ExtractGoogleAppsContent(outcome)
      [] Branch(mime_type) = "pdf" -> ExtractPdfContent(outcome)
      [] Branch(mime_type) = "text" -> ExtractTextContent(outcome)
      [] OTHER -> None

\* the try block of _extract_file_content_for_search; raised names the
\* exception that leaves it ("None": it returns)
ExtractAndSearch(mime_type, outcome, term, cs, rx) ==
    LET c == ExtractContent(mime_type, outcome)
        m == FindContentMatches(c.text, term, cs, rx)
    IN  IF c.kind \in Exceptions THEN [NoMatches EXCEPT !.raised = c.kind]
        ELSE IF c.kind = "None" \/ c.text = <<>> THEN NoMatches
        ELSE IF m = <<>> THEN NoMatches
        ELSE [raised |-> "None", has_matches |-> TRUE,
              snippets |-> GenerateSearchSnippets(c.text, m, SnippetLength),
              match_count |-> Len(m)]

\* _extract_file_content_for_search without its handlers and those of the
\* extractors it calls: a failed media request leaves it
ExtractFileContentForSearchUnguarded(mime_type, outcome, term, cs, rx) ==
    IF Fetches(mime_type) /\ outcome.kind \in Exceptions
    THEN [NoMatches EXCEPT !.raised = outcome.kind]
    ELSE ExtractAndSearch(mime_type, outcome, term, cs, rx)

\* _extract_file_content_for_search: except Exception gives no matches
ExtractFileContentForSearch(mime_type, outcome, term, cs, rx) ==
    LET r == ExtractAndSearch(mime_type, outcome, term, cs, rx)
    IN  IF r.raised \in Exceptions THEN NoMatches ELSE r

(***************************************************************************)
(* Spec: the tools search_drive_by_content and search_within_file_content  *)
(***************************************************************************)
\* inputs of the invocations and answers of the remote services
SearchTerms == {<<>>, <<" ">>, <<"A">>, <<" ", "A">>}
FolderIds == {"None", "folder1"}
DocTexts == {<<>>, <<"a">>, <<"a", "A">>, <<" ", "A">>}
CandidateMimeTypes == {GoogleDoc, Pdf, TextPlain, Docx}
MediaOutcomes ==
    {[kind |-> "text", text |-> t] : t \in DocTexts}
        \cup {[kind |-> "HttpError", text |-> <<>>], [kind |-> "Exception", text |-> <<>>]}

\* get_max_content_search_results() with the environment variable unset
DefaultMaxResults == 50

NoQuery == [fullText |-> <<>>, mimeTypes |-> <<>>, parent |-> "None"]
NoResult == [file_id |-> 0, mime_type |-> <<>>, has_matches |-> FALSE,
             match_count |-> 0, snippets |-> <<>>]
NoResponse == [kind |-> "none", error |-> "", results |-> <<>>, total_matches |-> 0,
               search_term |-> <<>>, query |-> NoQuery, result |-> NoResult]
NoCalls == <<>>
NoList == [is_none |-> TRUE, list |-> <<>>]
NoId == [is_none |-> TRUE, id |-> <<>>]
NoArgs == [due_date |-> "None", status |-> "None", start_date |-> "None",
           end_date |-> "None", query |-> <<>>, calendar_ids |-> NoList,
           calendar_id |-> NoId, event_id |-> "None", q |-> "None",
           start_time |-> "None", end_time |-> "None"]
\* what os.getenv('DEFAULT_CALENDAR_IDS', 'primary') gives when the variable is unset
Unset == <<"primary">>
NoStore == <<>>
Threads == {1, 2}
NoThreads == [t \in Threads |-> "none"]

ErrorResponse(msg) == [NoResponse EXCEPT !.kind = "error", !.error = msg]
\* an exception nothing catches leaves the tool
Raised(exc) == [NoResponse EXCEPT !.kind = "raised", !.error = exc]
HttpErrorResponse == ErrorResponse("An error occurred: HttpError")

\* a call issued a second time when its first attempt failed
CalledWithRetry(op, id, outcome) ==
    IF outcome = "ok"
    THEN Append(calls, [op |-> op, id |-> id, outcome |-> outcome])
    ELSE calls \o <<[op |-> op, id |-> id, outcome |-> outcome],
                    [op |-> op, id |-> id, outcome |-> outcome]>>

\* calls after one more call op (about file id, 0 when about none) ended in outcome
Called(op, id, outcome) == Append(calls, [op |-> op, id |-> id, outcome |-> outcome])

Init ==
    /\ pc = "idle"
    /\ tool = "none"
    /\ search_term = <<>>
    /\ case_sensitive = FALSE
    /\ use_regex = FALSE
    /\ folder_id = "None"
    /\ max_results = 0
    /\ token_json \in {"absent", "valid", "expired", "invalid"}
    /\ query = NoQuery
    /\ files = <<>>
    /\ content_info = <<>>
    /\ search_results = <<>>
    /\ response = NoResponse
    /\ calls = NoCalls
    /\ content = <<>>
    /\ matches = <<>>
    /\ args = NoArgs
    /\ tasks = <<>>
    /\ snippet_len = 0
    /\ snippet_list = <<>>
    /\ auth_pc = NoThreads
    /\ creds = NoThreads
    /\ in_flight = {}
    /\ env = Unset
    /\ validated_calendar_ids = <<>>
    /\ all_events = <<>>
    /\ store = NoStore

\* the validation without the strip
TermIsEmptyUnstripped(term) == term = <<>>

\* the validation of search_drive_by_content
TermIsEmpty(term) == Strip(term) = <<>>

\* search_drive_by_content up to its first await: validation and defaults
SearchDriveByContent ==
    /\ pc = "idle"
    /\ \E term \in SearchTerms, folder \in FolderIds, cs \in BOOLEAN, rx \in BOOLEAN,
          mr \in (1..(MaxFiles - 1)) \cup {DefaultMaxResults} :
        /\ tool' = "search_drive_by_content"
        /\ search_term' = term
        /\ folder_id' = folder
        /\ case_sensitive' = cs
        /\ use_regex' = rx
        /\ IF TermIsEmpty(term)
           THEN /\ response' = ErrorResponse("Search term cannot be empty")
                /\ pc' = "done"
                /\ UNCHANGED max_results
           ELSE /\ max_results' = mr
                /\ pc' = "get_credentials"
                /\ UNCHANGED response
    /\ UNCHANGED <<token_json, query, files, content_info, search_results, calls,
                   content, matches>>
    /\ UNCHANGED <<args, tasks, snippet_len, snippet_list, auth_pc, creds>>
    /\ UNCHANGED <<in_flight, env, validated_calendar_ids, all_events, store>>

\* search_within_file_content up to its first await
SearchWithinFileContent ==
    /\ pc = "idle"
    /\ \E term \in SearchTerms, cs \in BOOLEAN, rx \in BOOLEAN :
        /\ tool' = "search_within_file_content"
        /\ search_term' = term
        /\ case_sensitive' = cs
        /\ use_regex' = rx
    /\ pc' = "get_credentials"
    /\ UNCHANGED <<folder_id, max_results, token_json, query, files, content_info,
                   search_results, response, calls, content, matches>>
    /\ UNCHANGED <<args, tasks, snippet_len, snippet_list, auth_pc, creds>>
    /\ UNCHANGED <<in_flight, env, validated_calendar_ids, all_events, store>>

\* get_credentials: the stored token when valid; else a refresh (expired
\* token with a refresh token) or the interactive flow, either of which may
\* raise, and then the rewrite of token.json
GetCredentials ==
    /\ pc = "get_credentials"
    /\ \/ /\ token_json = "valid"
          /\ calls' = Called("get_credentials", 0, "ok")
          /\ pc' = "build"
          /\ UNCHANGED <<token_json, response>>
       \/ /\ token_json # "valid"
          /\ token_json' = "valid"
          /\ calls' = Called("get_credentials", 0, "ok")
          /\ pc' = "build"
          /\ UNCHANGED response
       \/ /\ token_json # "valid"
          /\ calls' = Called("get_credentials", 0, "Exception")
          /\ response' = Raised(IF token_json = "expired" THEN "RefreshError" ELSE "FlowError")
          /\ pc' = "done"
          /\ UNCHANGED token_json
    /\ UNCHANGED <<tool, search_term, case_sensitive, use_regex, folder_id, max_results,
                   query, files, content_info, search_results, content, matches>>
    /\ UNCHANGED <<args, tasks, snippet_len, snippet_list, auth_pc, creds>>
    /\ UNCHANGED <<in_flight, env, validated_calendar_ids, all_events, store>>

\* the query string of search_drive_by_content
BuildQuery(term, cs, rx, file_types, folder) ==
    [fullText |-> IF rx \/ cs THEN term ELSE Lower(term),
     mimeTypes |-> file_types,
     parent |-> folder]

\* build("drive", "v3", credentials=creds), inside the try
Build ==
    /\ pc = "build"
    /\ \/ /\ calls' = Called("build", 0, "ok")
          /\ pc' = IF tool = "search_drive_by_content" THEN "list" ELSE "get"
          /\ UNCHANGED response
       \/ /\ calls' = Called("build", 0, "HttpError")
          /\ response' = HttpErrorResponse
          /\ pc' = "done"
       \/ /\ calls' = Called("build", 0, "Exception")
          /\ response' = Raised("Exception")
          /\ pc' = "done"
    /\ UNCHANGED <<tool, search_term, case_sensitive, use_regex, folder_id, max_results,
                   token_json, query, files, content_info, search_results, content,
                   matches>>
    /\ UNCHANGED <<args, tasks, snippet_len, snippet_list, auth_pc, creds>>
    /\ UNCHANGED <<in_flight, env, validated_calendar_ids, all_events, store>>

\* candidate lists the index can answer with: at most page_size files
Candidates(page_size) ==
    LET mimes == SeqsUpTo(CandidateMimeTypes, Min2(page_size, MaxFiles))
    IN  {[i \in 1..Len(ms) |-> [id |-> i, mimeType |-> ms[i]]] : ms \in mimes}

\* the index query with an HttpError taken for an empty candidate list
ListFilesSwallowingHttpError ==
    /\ pc = "list"
    /\ query' = BuildQuery(search_term, case_sensitive, use_regex,
                           SupportedContentSearchTypes, folder_id)
    /\ \/ /\ files' \in Candidates(max_results)
          /\ calls' = Called("list", 0, "ok")
       \/ /\ calls' = Called("list", 0, "HttpError")
          /\ files' = <<>>
    /\ pc' = "extract"
    /\ UNCHANGED <<tool, search_term, case_sensitive, use_regex, folder_id, max_results,
                   token_json, content_info, search_results, response, content, matches>>
    /\ UNCHANGED <<args, tasks, snippet_len, snippet_list, auth_pc, creds>>
    /\ UNCHANGED <<in_flight, env, validated_calendar_ids, all_events, store>>

\* the index query following the next page once
ListFilesAllPages ==
    /\ pc = "list"
    /\ query' = BuildQuery(search_term, case_sensitive, use_regex,
                           SupportedContentSearchTypes, folder_id)
    /\ \/ /\ \E page1 \in Candidates(max_results), page2 \in Candidates(max_results) :
                files' = page1 \o [i \in 1..Len(page2) |->
                                      [id |-> Len(page1) + i,
                                       mimeType |-> page2[i].mimeType]]
          /\ calls' = Append(Called("list", 0, "ok"),
                             [op |-> "list", id |-> 0, outcome |-> "ok"])
          /\ pc' = "extract"
          /\ UNCHANGED response
       \/ /\ calls' = Called("list", 0, "HttpError")
          /\ response' = HttpErrorResponse
          /\ pc' = "done"
          /\ UNCHANGED files
    /\ UNCHANGED <<tool, search_term, case_sensitive, use_regex, folder_id, max_results,
                   token_json, content_info, search_results, content, matches>>
    /\ UNCHANGED <<args, tasks, snippet_len, snippet_list, auth_pc, creds>>
    /\ UNCHANGED <<in_flight, env, validated_calendar_ids, all_events, store>>

\* the index query: files().list(q=query, pageSize=max_results).execute()
ListFiles ==
    /\ pc = "list"
    /\ query' = BuildQuery(search_term, case_sensitive, use_regex,
                           SupportedContentSearchTypes, folder_id)
    /\ \/ /\ files' \in Candidates(max_results)
          /\ calls' = Called("list", 0, "ok")
          /\ pc' = "extract"
          /\ UNCHANGED response
       \/ /\ calls' = Called("list", 0, "HttpError")
          /\ response' = HttpErrorResponse
          /\ pc' = "done"
          /\ UNCHANGED files
       \/ /\ calls' = Called("list", 0, "Exception")
          /\ response' = Raised("Exception")
          /\ pc' = "done"
          /\ UNCHANGED files
    /\ UNCHANGED <<tool, search_term, case_sensitive, use_regex, folder_id, max_results,
                   token_json, content_info, search_results, content, matches>>
    /\ UNCHANGED <<args, tasks, snippet_len, snippet_list, auth_pc, creds>>
    /\ UNCHANGED <<in_flight, env, validated_calendar_ids, all_events, store>>

\* the metadata fetch: files().get(fileId=file_id).execute()
GetMetadata ==
    /\ pc = "get"
    /\ \/ /\ \E m \in CandidateMimeTypes : files' = <<[id |-> 1, mimeType |-> m]>>
          /\ calls' = Called("get", 1, "ok")
          /\ pc' = "extract"
          /\ UNCHANGED response
       \/ /\ calls' = Called("get", 1, "HttpError")
          /\ response' = HttpErrorResponse
          /\ pc' = "done"
          /\ UNCHANGED files
       \/ /\ calls' = Called("get", 1, "Exception")
          /\ response' = Raised("Exception")
          /\ pc' = "done"
          /\ UNCHANGED files
    /\ UNCHANGED <<tool, search_term, case_sensitive, use_regex, folder_id, max_results,
                   token_json, query, content_info, search_results, content, matches>>
    /\ UNCHANGED <<args, tasks, snippet_len, snippet_list, auth_pc, creds>>
    /\ UNCHANGED <<in_flight, env, validated_calendar_ids, all_events, store>>

\* the dict appended to search_results
ResultOf(file, info) ==
    [id |-> file.id, mimeType |-> file.mimeType, snippets |-> info.snippets,
     match_count |-> info.match_count]

\* the loop body without its has_matches test
AppendResultAlways(results, file, info) == Append(results, ResultOf(file, info))

\* search_results after the loop body has handled file with its content_info
AppendResult(results, file, info) ==
    IF info.has_matches THEN Append(results, ResultOf(file, info)) ELSE results

\* the media requests of all the remaining candidates started together
StartFetchAll ==
    /\ pc = "extract"
    /\ Len(content_info) < Len(files)
    /\ Fetches(files[Len(content_info) + 1].mimeType)
    /\ files[Len(content_info) + 1].id \notin in_flight
    /\ in_flight' = {files[i].id : i \in {j \in (Len(content_info) + 1)..Len(files) :
                                             Fetches(files[j].mimeType)}}
    /\ UNCHANGED <<pc, tool, search_term, case_sensitive, use_regex, folder_id,
                   max_results, token_json, query, files, content_info, search_results,
                   response, calls, content, matches>>
    /\ UNCHANGED <<args, tasks, snippet_len, snippet_list, auth_pc, creds>>
    /\ UNCHANGED <<env, validated_calendar_ids, all_events, store>>

\* the loop reaches the next candidate and its extractor sends the media
\* request (export_media or get_media), which the loop awaits
StartFetch ==
    /\ pc = "extract"
    /\ Len(content_info) < Len(files)
    /\ Fetches(files[Len(content_info) + 1].mimeType)
    /\ files[Len(content_info) + 1].id \notin in_flight
    /\ in_flight' = in_flight \cup {files[Len(content_info) + 1].id}
    /\ UNCHANGED <<pc, tool, search_term, case_sensitive, use_regex, folder_id,
                   max_results, token_json, query, files, content_info, search_results,
                   response, calls, content, matches>>
    /\ UNCHANGED <<args, tasks, snippet_len, snippet_list, auth_pc, creds>>
    /\ UNCHANGED <<env, validated_calendar_ids, all_events, store>>

\* the rest of one pass of the loop over files (the single pass of
\* search_within_file_content): the media request of the candidate returns,
\* _extract_file_content_for_search scans the text and builds the snippets,
\* then the append when it has matches
Extract ==
    /\ pc = "extract"
    /\ Len(content_info) < Len(files)
    /\ Fetches(files[Len(content_info) + 1].mimeType) =>
          files[Len(content_info) + 1].id \in in_flight
    /\ in_flight' = in_flight \ {files[Len(content_info) + 1].id}
    /\ LET file == files[Len(content_info) + 1]
       IN  \E outcome \in IF Fetches(file.mimeType) THEN MediaOutcomes ELSE {NoOutcome} :
            LET info == ExtractFileContentForSearch(file.mimeType, outcome, search_term,
                                                    case_sensitive, use_regex)
                text == ExtractContent(file.mimeType, outcome).text
            IN  /\ calls' = IF Fetches(file.mimeType)
                              THEN Called("media", file.id,
                                          IF outcome.kind = "text" THEN "ok" ELSE outcome.kind)
                              ELSE calls
                /\ content_info' = Append(content_info,
                        [id |-> file.id, branch |-> Branch(file.mimeType),
                         outcome |-> outcome, raised |-> info.raised,
                         has_matches |-> info.has_matches, snippets |-> info.snippets,
                         match_count |-> info.match_count])
                /\ IF text # <<>> /\ info.raised = "None"
                   THEN /\ content' = text
                        /\ matches' = FindContentMatches(text, search_term,
                                                         case_sensitive, use_regex)
                   ELSE UNCHANGED <<content, matches>>
                /\ IF info.raised = "None"
                   THEN /\ search_results' =
                              IF tool = "search_drive_by_content"
                              THEN AppendResult(search_results, file, info)
                              ELSE search_results
                        /\ UNCHANGED <<pc, response>>
                   ELSE /\ response' = IF info.raised = "HttpError"
                                       THEN HttpErrorResponse ELSE Raised(info.raised)
                        /\ pc' = "done"
                        /\ UNCHANGED search_results
    /\ UNCHANGED <<tool, search_term, case_sensitive, use_regex, folder_id, max_results,
                   token_json, query, files>>
    /\ UNCHANGED <<args, tasks, snippet_len, snippet_list, auth_pc, creds>>
    /\ UNCHANGED <<env, validated_calendar_ids, all_events, store>>

\* the number of spans in all results
RECURSIVE TotalSpans(_)
TotalSpans(results) ==
    IF results = <<>> THEN 0 ELSE Head(results).match_count + TotalSpans(Tail(results))

\* total_matches of the response
TotalMatches(results) == Len(results)

\* the response of search_drive_by_content after the loop
SearchResponse(results, term, q) ==
    [NoResponse EXCEPT !.kind = "success", !.results = results,
                       !.total_matches = TotalMatches(results),
                       !.search_term = term, !.query = q]

\* the return of search_drive_by_content
ReturnResults ==
    /\ pc = "extract"
    /\ tool = "search_drive_by_content"
    /\ Len(content_info) = Len(files)
    /\ response' = SearchResponse(search_results, search_term, query)
    /\ pc' = "done"
    /\ UNCHANGED <<tool, search_term, case_sensitive, use_regex, folder_id, max_results,
                   token_json, query, files, content_info, search_results, calls,
                   content, matches>>
    /\ UNCHANGED <<args, tasks, snippet_len, snippet_list, auth_pc, creds>>
    /\ UNCHANGED <<in_flight, env, validated_calendar_ids, all_events, store>>

\* the result dict of search_within_file_content
FileResult(file, info) ==
    [file_id |-> file.id, mime_type |-> file.mimeType, has_matches |-> info.has_matches,
     match_count |-> info.match_count, snippets |-> info.snippets]

\* the return of search_within_file_content with a file without matches
\* reported as an error
ReturnFileResultOrError ==
    /\ pc = "extract"
    /\ tool = "search_within_file_content"
    /\ Len(content_info) = Len(files)
    /\ response' = IF content_info[1].has_matches
                   THEN [NoResponse EXCEPT !.kind = "success",
                                           !.result = FileResult(files[1], content_info[1])]
                   ELSE ErrorResponse("No matches found")
    /\ pc' = "done"
    /\ UNCHANGED <<tool, search_term, case_sensitive, use_regex, folder_id, max_results,
                   token_json, query, files, content_info, search_results, calls,
                   content, matches>>
    /\ UNCHANGED <<args, tasks, snippet_len, snippet_list, auth_pc, creds>>
    /\ UNCHANGED <<in_flight, env, validated_calendar_ids, all_events, store>>

\* the return of search_within_file_content
ReturnFileResult ==
    /\ pc = "extract"
    /\ tool = "search_within_file_content"
    /\ Len(content_info) = Len(files)
    /\ response' = [NoResponse EXCEPT !.kind = "success",
                                      !.result = FileResult(files[1], content_info[1])]
    /\ pc' = "done"
    /\ UNCHANGED <<tool, search_term, case_sensitive, use_regex, folder_id, max_results,
                   token_json, query, files, content_info, search_results, calls,
                   content, matches>>
    /\ UNCHANGED <<args, tasks, snippet_len, snippet_list, auth_pc, creds>>
    /\ UNCHANGED <<in_flight, env, validated_calendar_ids, all_events, store>>

\* the invocation is over; the server waits for the next one
Finish ==
    /\ pc = "done"
    /\ pc' = "idle"
    /\ tool' = "none"
    /\ search_term' = <<>>
    /\ case_sensitive' = FALSE
    /\ use_regex' = FALSE
    /\ folder_id' = "None"
    /\ max_results' = 0
    /\ query' = NoQuery
    /\ files' = <<>>
    /\ content_info' = <<>>
    /\ search_results' = <<>>
    /\ response' = NoResponse
    /\ calls' = NoCalls
    /\ content' = <<>>
    /\ matches' = <<>>
    /\ UNCHANGED token_json
    /\ args' = NoArgs
    /\ tasks' = <<>>
    /\ UNCHANGED <<snippet_len, snippet_list, auth_pc, creds>>
    /\ in_flight' = {}
    /\ validated_calendar_ids' = <<>>
    /\ all_events' = <<>>
    /\ UNCHANGED <<env, store>>

Next ==
    \/ SearchDriveByContent
    \/ SearchWithinFileContent
    \/ GetCredentials
    \/ Build
    \/ ListFiles
    \/ GetMetadata
    \/ StartFetch
    \/ Extract
    \/ ReturnResults
    \/ ReturnFileResult
    \/ Finish

Spec == Init /\ [][Next]_vars

(***************************************************************************)
(* SpecFind: _find_content_matches on every input within the bounds        *)
(***************************************************************************)
\* characters of the texts and terms; "Idot" is U+0130, whose lower() is
\* two code points; patterns and their subjects stay within RegexChars
RegexChars == {"a", "A", "[", "*"}
FindChars == RegexChars \cup {"Idot"}

InitFind ==
    /\ pc = "find"
    /\ tool = "_find_content_matches"
    /\ case_sensitive \in BOOLEAN
    /\ use_regex \in BOOLEAN
    /\ search_term \in SeqsUpTo(IF use_regex THEN RegexChars ELSE FindChars, MaxFindTermLen)
    /\ content \in SeqsUpTo(IF use_regex THEN RegexChars ELSE FindChars, MaxFindContentLen)
    /\ matches = <<>>
    /\ folder_id = "None"
    /\ max_results = 0
    /\ token_json = "valid"
    /\ query = NoQuery
    /\ files = <<>>
    /\ content_info = <<>>
    /\ search_results = <<>>
    /\ response = NoResponse
    /\ calls = NoCalls
    /\ args = NoArgs
    /\ tasks = <<>>
    /\ snippet_len = 0
    /\ snippet_list = <<>>
    /\ auth_pc = NoThreads
    /\ creds = NoThreads
    /\ in_flight = {}
    /\ env = Unset
    /\ validated_calendar_ids = <<>>
    /\ all_events = <<>>
    /\ store = NoStore

Find ==
    /\ pc = "find"
    /\ matches' = FindContentMatches(content, search_term, case_sensitive, use_regex)
    /\ pc' = "found"
    /\ UNCHANGED <<tool, search_term, case_sensitive, use_regex, folder_id,
                   max_results, token_json, query, files, content_info,
                   search_results, response, calls, content>>
    /\ UNCHANGED <<args, tasks, snippet_len, snippet_list, auth_pc, creds>>
    /\ UNCHANGED <<in_flight, env, validated_calendar_ids, all_events, store>>

NextFind == Find

SpecFind == InitFind /\ [][NextFind]_vars

(***************************************************************************)
(* Properties                                                              *)
(***************************************************************************)
Drive == tool = "search_drive_by_content"
WithinFile == tool = "search_within_file_content"
Blank(term) == \A i \in 1..Len(term) : term[i] \in Whitespace
Failed(k) == \E i \in 1..Len(calls) : calls[i].op = k /\ calls[i].outcome = "HttpError"
MediaCalls == {i \in 1..Len(calls) : calls[i].op = "media"}
Ids(results) == [k \in 1..Len(results) |-> results[k].id]
WithMatches == SelectSeq(content_info, LAMBDA e : e.match_count > 0)

\* C1: every finished invocation gave its caller the success payload or an
\* {"error": ...} payload; no exception left the tool.
C1_AlwaysJsonResponse ==
    pc = "done" => response.kind \in {"success", "error"}

\* C2: search_drive_by_content with an empty or whitespace-only term ends
\* at once with {"error": "Search term cannot be empty"} and has issued no
\* call: no credentials, no service build, no index query, no media request.
C2_EmptyTermRejected ==
    (Drive /\ Blank(search_term)) =>
        /\ pc = "done"
        /\ response = ErrorResponse("Search term cannot be empty")
        /\ calls = <<>>
        /\ files = <<>> /\ content_info = <<>>

C2_Witness ==
    /\ Drive /\ pc = "done" /\ search_term = <<" ">>
    /\ response.kind = "error" /\ calls = <<>>

\* C3: in search_drive_by_content a candidate whose media request failed
\* is left out of the results, a candidate that matched is in them, no
\* exception leaves the extraction, and once candidates are being processed
\* the invocation ends only after all of them, with the success payload.
C3_PerDocumentIsolation ==
    (Drive /\ content_info # <<>>) =>
        /\ \A i \in 1..Len(content_info) :
            /\ content_info[i].raised = "None"
            /\ content_info[i].outcome.kind \in Exceptions =>
                  \A k \in 1..Len(search_results) : search_results[k].id # content_info[i].id
            /\ content_info[i].has_matches =>
                  \E k \in 1..Len(search_results) : search_results[k].id = content_info[i].id
        /\ pc \in {"extract", "done"}
        /\ pc = "done" =>
            /\ response.kind = "success"
            /\ Len(content_info) = Len(files)
            /\ response.results = search_results

C3_Witness ==
    /\ Drive /\ pc = "done" /\ Len(files) = 2
    /\ content_info[1].outcome.kind = "HttpError"
    /\ content_info[2].has_matches
    /\ response.kind = "success"
    /\ Ids(response.results) = <<2>>

\* C5: the results of search_drive_by_content are exactly the candidates
\* with a match count above 0, once each, in the order of the index.
C5_ResultsAreMatchingCandidatesInOrder ==
    (Drive /\ pc \in {"extract", "done"}) =>
        /\ \A i \in 1..Len(content_info) : content_info[i].id = files[i].id
        /\ Ids(search_results) = Ids(WithMatches)
        /\ \A k \in 1..Len(search_results) :
              search_results[k].match_count = WithMatches[k].match_count
        /\ (pc = "done" /\ response.kind = "success") =>
              /\ response.results = search_results
              /\ Len(content_info) = Len(files)

C5_Witness ==
    /\ Drive /\ pc = "done" /\ response.kind = "success" /\ Len(files) = 2
    /\ content_info[1].outcome.kind = "text" /\ content_info[1].match_count = 0
    /\ content_info[2].match_count > 0
    /\ Ids(response.results) = <<2>>

\* C6: in a success payload of search_drive_by_content total_matches is the
\* number of documents with at least one match, search_term is the argument
\* as given and query is the query that was sent to the index.
C6_TotalIsDocumentCount ==
    (Drive /\ pc = "done" /\ response.kind = "success") =>
        /\ response.total_matches = Len(response.results)
        /\ response.total_matches =
              Cardinality({i \in 1..Len(content_info) : content_info[i].match_count > 0})
        /\ response.search_term = search_term
        /\ response.query = query
        /\ \E i \in 1..Len(calls) : calls[i].op = "list" /\ calls[i].outcome = "ok"

C6_Witness ==
    /\ Drive /\ pc = "done" /\ response.kind = "success"
    /\ Len(response.results) = 1 /\ response.results[1].match_count = 2
    /\ response.total_matches = 1
    /\ response.search_term = <<"A">>
    /\ response.query.fullText = <<"a">>

\* C7: search_within_file_content, once the metadata is there, ends only
\* with the result record of that file; when the media request failed or
\* nothing matched the record has has_matches false, match_count 0 and no
\* snippets, and is not an error payload.
C7_FileResultAlways ==
    (WithinFile /\ files # <<>>) =>
        /\ pc \in {"extract", "done"}
        /\ pc = "done" =>
            /\ response.kind = "success"
            /\ response.result.file_id = files[1].id
            /\ response.result.mime_type = files[1].mimeType
            /\ response.result.has_matches = (response.result.match_count > 0)
            /\ Len(response.result.snippets) = response.result.match_count
            /\ content_info[1].outcome.kind # "text" => response.result.match_count = 0

C7_Witness ==
    /\ WithinFile /\ pc = "done" /\ response.kind = "success"
    /\ content_info[1].outcome.kind = "Exception"
    /\ ~response.result.has_matches /\ response.result.snippets = <<>>

\* C8: an HttpError of the index query or of the metadata fetch ends the
\* invocation with {"error": "An error occurred: ..."}: no results and no
\* media request.
C8_QueryFailureIsFatal ==
    (Failed("list") \/ Failed("get")) =>
        /\ pc = "done"
        /\ response = HttpErrorResponse
        /\ search_results = <<>> /\ content_info = <<>>
        /\ MediaCalls = {}

C8_Witness ==
    /\ Drive /\ Failed("list") /\ pc = "done" /\ response.kind = "error"

\* C10: every span _find_content_matches returned to a tool has
\* start < end.
C10_SpansNonEmpty ==
    \A i \in 1..Len(matches) : matches[i][1] < matches[i][2]

(***************************************************************************)
(* Properties of _find_content_matches (SpecFind)                          *)
(***************************************************************************)
Found == pc = "found"
\* offsets at which sub occurs in text
Occurrences(text, sub) ==
    {p \in 0..(Len(text) - Len(sub)) : SubSeq(text, p + 1, p + Len(sub)) = sub}
Folded(s) == IF case_sensitive THEN s ELSE Lower(s)

C9_LiteralSpansAreAllOccurrences ==
    (Found /\ ~use_regex /\ search_term # <<>>) =>
        LET occ == Occurrences(Folded(content), Folded(search_term))
        IN  /\ Len(matches) = Cardinality(occ)
            /\ \A i \in 1..Len(matches) :
                  /\ matches[i][1] \in occ
                  /\ matches[i][2] = matches[i][1] + Len(search_term)
            /\ \A i \in 1..(Len(matches) - 1) : matches[i][1] < matches[i + 1][1]
            /\ (content = <<"a", "a", "a">> /\ search_term = <<"a", "a">>) =>
                  matches = << <<0, 2>>, <<1, 3>> >>

C9_Witness ==
    /\ Found /\ ~use_regex /\ ~case_sensitive
    /\ content = <<"A", "a", "A">> /\ search_term = <<"a", "A">>
    /\ matches = << <<0, 2>>, <<1, 3>> >>

\* C11: in literal mode with case_sensitive false, every span lies in the
\* coordinates of the original text: it starts at or after 0, ends at or
\* before the end of the text, is as long as the term, and the slice of the
\* original text it delimits equals the term up to case -- also when
\* lowercasing changes the length of the text or of the term.
C11_SpansInOriginalText ==
    (Found /\ ~use_regex /\ ~case_sensitive) =>
        \A i \in 1..Len(matches) :
            /\ 0 <= matches[i][1]
            /\ matches[i][2] <= Len(content)
            /\ matches[i][2] - matches[i][1] = Len(search_term)
            /\ Lower(Slice(content, matches[i][1], matches[i][2])) = Lower(search_term)

\* whether the whole of s is a word of the pattern atoms, letters compared
\* as the call's case mode says
RECURSIVE Accepts(_, _)
Accepts(atoms, s) ==
    IF atoms = <<>> THEN s = <<>>
    ELSE IF Head(atoms).star
    THEN \E n \in 0..Len(s) :
            /\ \A j \in 1..n : Folded(<<s[j]>>) = Folded(<<Head(atoms).ch>>)
            /\ Accepts(Tail(atoms), SubSeq(s, n + 1, Len(s)))
    ELSE /\ s # <<>>
         /\ Folded(<<Head(s)>>) = Folded(<<Head(atoms).ch>>)
         /\ Accepts(Tail(atoms), Tail(s))

\* C12: in regex mode with a pattern that compiles, the spans are reported
\* left to right and no two overlap (each ends at or before the start of the
\* next); each delimits a word of the pattern, and every place where the
\* pattern matches is the start of a span or inside one -- letters being
\* compared without regard to case exactly when case_sensitive is false.
C12_RegexSpansOrderedDisjoint ==
    (Found /\ use_regex /\ Compile(search_term) # CompileError) =>
        LET atoms == Compile(search_term)
        IN  /\ \A i \in 1..Len(matches) :
                  /\ 0 <= matches[i][1] /\ matches[i][1] <= matches[i][2]
                  /\ matches[i][2] <= Len(content)
                  /\ Accepts(atoms, Slice(content, matches[i][1], matches[i][2]))
            /\ \A i \in 1..(Len(matches) - 1) :
                  /\ matches[i][1] <= matches[i + 1][1]
                  /\ matches[i][2] <= matches[i + 1][1]
            /\ \A s \in 0..Len(content) : \A e \in s..Len(content) :
                  Accepts(atoms, Slice(content, s, e)) =>
                     \E i \in 1..Len(matches) :
                        /\ matches[i][1] <= s
                        /\ s < matches[i][2] \/ s = matches[i][1]

C12_Witness ==
    /\ Found /\ use_regex /\ ~case_sensitive
    /\ content = <<"A", "[", "a">> /\ search_term = <<"a">>
    /\ matches = << <<0, 1>>, <<2, 3>> >>

(***************************************************************************)
(* Properties of the remote calls of one invocation (Spec)                 *)
(***************************************************************************)
\* the calls of the invocation that are the operation op
CallsOf(op) == {i \in 1..Len(calls) : calls[i].op = op}

\* C19: no remote call is retried: within one invocation the credential
\* acquisition, the index query, the metadata fetch and the media request of
\* each document are each issued at most once, and a call that failed is
\* never followed by another attempt of the same call.
C19_NoRetries ==
    /\ Cardinality(CallsOf("get_credentials")) <= 1
    /\ Cardinality(CallsOf("list")) <= 1
    /\ Cardinality(CallsOf("get")) <= 1
    /\ \A i \in CallsOf("media") : \A j \in CallsOf("media") :
          calls[i].id = calls[j].id => i = j
    /\ \A i \in 1..Len(calls) : \A j \in (i + 1)..Len(calls) :
          calls[i].outcome # "ok" =>
             ~(calls[j].op = calls[i].op /\ calls[j].id = calls[i].id)

\* a document's media request failed and the invocation went on to the next
\* document and finished
C19_Witness ==
    /\ Drive /\ pc = "done" /\ response.kind = "success"
    /\ \E i \in CallsOf("media") : \E j \in CallsOf("media") :
          /\ i < j
          /\ calls[i].outcome = "HttpError" /\ calls[i].id = 1
          /\ calls[j].outcome = "ok" /\ calls[j].id = 2

\* C20: search_drive_by_content runs the index query once with page size
\* max_results and asks for no further page: there is never more than one
\* index query, a successful search has made exactly one, and the candidates
\* it obtained, examined and returned each number at most max_results.
C20_OneBoundedPage ==
    Drive =>
        /\ Cardinality(CallsOf("list")) <= 1
        /\ response.kind = "success" => Cardinality(CallsOf("list")) = 1
        /\ pc \notin {"idle", "get_credentials"} /\ ~TermIsEmpty(search_term) =>
              /\ Len(files) <= max_results
              /\ Len(content_info) <= max_results
              /\ Cardinality(CallsOf("media")) <= max_results
              /\ Len(search_results) <= max_results
              /\ Len(response.results) <= max_results

\* a search with max_results 1 that examined and returned one candidate
C20_Witness ==
    /\ Drive /\ pc = "done" /\ response.kind = "success"
    /\ max_results = 1
    /\ Len(files) = 1 /\ Len(content_info) = 1
    /\ Len(response.results) = 1
    /\ Cardinality(CallsOf("list")) = 1

(***************************************************************************)
(* SpecSnippet: _generate_search_snippets on every input within the bounds *)
(***************************************************************************)
MaxSnippetTextLen == 3
MaxSpans == 2
MaxSnippetLength == 3
SnippetChars == {"a", "b"}

\* the spans (start, end) that lie in text
SpansIn(text) == {sp \in (0..Len(text)) \X (0..Len(text)) : sp[1] <= sp[2]}

InitSnippet ==
    /\ pc = "snippets"
    /\ tool = "_generate_search_snippets"
    /\ content \in SeqsUpTo(SnippetChars, MaxSnippetTextLen)
    /\ matches \in SeqsUpTo(SpansIn(content), MaxSpans)
    /\ snippet_len \in 0..MaxSnippetLength
    /\ snippet_list = <<>>
    /\ search_term = <<>>
    /\ case_sensitive = FALSE
    /\ use_regex = FALSE
    /\ folder_id = "None"
    /\ max_results = 0
    /\ token_json = "valid"
    /\ query = NoQuery
    /\ files = <<>>
    /\ content_info = <<>>
    /\ search_results = <<>>
    /\ response = NoResponse
    /\ calls = NoCalls
    /\ args = NoArgs
    /\ tasks = <<>>
    /\ auth_pc = NoThreads
    /\ creds = NoThreads
    /\ in_flight = {}
    /\ env = Unset
    /\ validated_calendar_ids = <<>>
    /\ all_events = <<>>
    /\ store = NoStore

GenerateSnippets ==
    /\ pc = "snippets"
    /\ snippet_list' = GenerateSearchSnippets(content, matches, snippet_len)
    /\ pc' = "snippets_done"
    /\ UNCHANGED <<tool, search_term, case_sensitive, use_regex, folder_id,
                   max_results, token_json, query, files, content_info,
                   search_results, response, calls, content, matches,
                   args, tasks, snippet_len, auth_pc, creds>>
    /\ UNCHANGED <<in_flight, env, validated_calendar_ids, all_events, store>>

NextSnippet == GenerateSnippets

SpecSnippet == InitSnippet /\ [][NextSnippet]_vars

(***************************************************************************)
(* Properties of _generate_search_snippets (SpecSnippet)                   *)
(***************************************************************************)
\* C13: _generate_search_snippets returns one snippet per input span, in
\* input order, without merging or removing duplicates: snippet i has the
\* text text[max(0, start - half) : min(len(text), end + half)] with half the
\* integer half of snippet_length, and original_start, original_end equal to
\* the span's start and end; a span covering the whole text gives the whole
\* text with match_start 0 and match_end len(text).
C13_OneSnippetPerSpan ==
    pc = "snippets_done" =>
        /\ Len(snippet_list) = Len(matches)
        /\ \A i \in 1..Len(matches) :
              LET half == snippet_len \div 2
                  lo == IF matches[i][1] - half < 0 THEN 0 ELSE matches[i][1] - half
                  hi == IF matches[i][2] + half > Len(content)
                        THEN Len(content) ELSE matches[i][2] + half
              IN  /\ snippet_list[i].text = SubSeq(content, lo + 1, hi)
                  /\ snippet_list[i].original_start = matches[i][1]
                  /\ snippet_list[i].original_end = matches[i][2]
                  /\ (matches[i][1] = 0 /\ matches[i][2] = Len(content)) =>
                        /\ snippet_list[i].text = content
                        /\ snippet_list[i].match_start = 0
                        /\ snippet_list[i].match_end = Len(content)

\* the same span given twice, with an odd snippet_length that cuts the text
C13_Witness ==
    /\ pc = "snippets_done" /\ snippet_len = 3
    /\ content = <<"a", "b", "a">>
    /\ matches = << <<2, 3>>, <<2, 3>> >>
    /\ Len(snippet_list) = 2
    /\ snippet_list[1].text = <<"b", "a">>
    /\ snippet_list[2] = snippet_list[1]

(***************************************************************************)
(* SpecExtract: _extract_file_content_for_search on one file of any mime   *)
(* type, with every answer the media request can get                       *)
(***************************************************************************)
ExtractMimeTypes ==
    CandidateMimeTypes \cup
        {TextCsv, <<"text/", "x-", "google-apps", ".script">>, <<"image/", "png">>,
         <<"application/", "pdf", "+zip">>, <<>>}

InitExtract ==
    /\ pc = "extract"
    /\ tool = "_extract_file_content_for_search"
    /\ \E m \in ExtractMimeTypes : files = <<[id |-> 1, mimeType |-> m]>>
    /\ search_term \in SearchTerms
    /\ case_sensitive \in BOOLEAN
    /\ use_regex \in BOOLEAN
    /\ content_info = <<>>
    /\ content = <<>>
    /\ matches = <<>>
    /\ folder_id = "None"
    /\ max_results = 0
    /\ token_json = "valid"
    /\ query = NoQuery
    /\ search_results = <<>>
    /\ response = NoResponse
    /\ calls = NoCalls
    /\ args = NoArgs
    /\ tasks = <<>>
    /\ snippet_len = 0
    /\ snippet_list = <<>>
    /\ auth_pc = NoThreads
    /\ creds = NoThreads
    /\ in_flight = {}
    /\ env = Unset
    /\ validated_calendar_ids = <<>>
    /\ all_events = <<>>
    /\ store = NoStore

NextExtract == StartFetch \/ Extract

SpecExtract == InitExtract /\ [][NextExtract]_vars

(***************************************************************************)
(* Properties of _extract_file_content_for_search (SpecExtract)            *)
(***************************************************************************)
Extracted == pc = "extract" /\ Len(content_info) = 1
\* what _extract_file_content_for_search returned for content_info entry i
Returned(i) ==
    [raised |-> content_info[i].raised, has_matches |-> content_info[i].has_matches,
     snippets |-> content_info[i].snippets, match_count |-> content_info[i].match_count]

\* C16: a document whose text extracts as the empty string matches no
\* non-empty term, and what _extract_file_content_for_search returns for it
\* differs from what it returns for the same document when the extraction
\* failed.
C16_EmptyTextDistinctFromFailure ==
    (/\ Extracted
     /\ content_info[1].branch \in {"google_apps", "text"}
     /\ content_info[1].outcome = [kind |-> "text", text |-> <<>>]) =>
        /\ search_term # <<>> => ~content_info[1].has_matches
        /\ \A k \in Exceptions :
              Returned(1) # ExtractFileContentForSearch(
                                files[1].mimeType, [kind |-> k, text |-> <<>>],
                                search_term, case_sensitive, use_regex)

\* C17: for a mime type with no "google-apps" in it, other than
\* "application/pdf" and not starting with "text/", no media request is
\* issued and the result is has_matches false, match_count 0, nothing
\* raised; for any other mime type one media request is issued, by the
\* first branch that applies in the order google-apps, PDF, text.
C17_DispatchOnMimeType ==
    Extracted =>
        LET m == files[1].mimeType
            info == content_info[1]
            google_apps == \E i \in 1..Len(m) : m[i] = "google-apps"
            pdf == m = <<"application/", "pdf">>
            text == Len(m) > 0 /\ m[1] = "text/"
        IN  /\ (~google_apps /\ ~pdf /\ ~text) =>
                  /\ info.branch = "none" /\ calls = <<>>
                  /\ ~info.has_matches /\ info.match_count = 0
                  /\ info.raised = "None" /\ response.kind # "raised"
            /\ (google_apps \/ pdf \/ text) =>
                  /\ Len(calls) = 1 /\ calls[1].op = "media"
                  /\ info.branch = IF google_apps THEN "google_apps"
                                   ELSE IF pdf THEN "pdf" ELSE "text"

\* a file of a mime type no branch handles has been through the function
C17_Witness ==
    /\ Extracted
    /\ files[1].mimeType = <<"image/", "png">>
    /\ content_info[1].branch = "none"
    /\ calls = <<>>

(***************************************************************************)
(* SpecTasks: the tools create_task, update_task and                       *)
(* search_tasks_by_period.  A date argument is one of a few strings;       *)
(* "None" stands for an argument that was not given.                       *)
(***************************************************************************)
MaxTasks == 2
DateStrings == {"None", "", "2024-01-15", "2024-01-31", "2024-13-45", "tomorrow"}
Statuses == {"None", "needsAction", "completed", "done"}
\* the "due" field of the items tasks().list answers with
TaskDues == {"None", "2024-01-15T00:00:00.000Z", "2024-01-31T00:00:00.000Z", "soon"}
TasksTools == {"create_task", "update_task", "search_tasks_by_period", "search_tasks"}

\* get_default_task_max_results() with the environment variable unset
DefaultTaskMaxResults == 100
\* get_default_task_list_id() with the environment variable unset
DefaultTaskListId == "@default"

ValueError == [ok |-> FALSE, day |-> 0, iso |-> ""]
\* datetime.fromisoformat on an argument: the day of January 2024 it
\* denotes and its isoformat(), or ValueError
FromIsoFormat(d) ==
    CASE d = "2024-01-15" -> [ok |-> TRUE, day |-> 15, iso |-> "2024-01-15T00:00:00"]
      [] d = "2024-01-31" -> [ok |-> TRUE, day |-> 31, iso |-> "2024-01-31T00:00:00"]
      [] OTHER -> ValueError

\* datetime.fromisoformat(due_date_str.replace('Z', '+00:00')) on an item's due
ParseDue(d) ==
    CASE d = "2024-01-15T00:00:00.000Z" ->
            [ok |-> TRUE, day |-> 15, iso |-> "2024-01-15T00:00:00+00:00"]
      [] d = "2024-01-31T00:00:00.000Z" ->
            [ok |-> TRUE, day |-> 31, iso |-> "2024-01-31T00:00:00+00:00"]
      [] OTHER -> ValueError

\* the validation of create_task and update_task while they prepare the
\* body: the error message, "" when the body is accepted
TaskBodyError(t, a) ==
    IF t = "create_task"
    THEN IF a.due_date \notin {"None", ""} /\ ~FromIsoFormat(a.due_date).ok
         THEN "Invalid date format. Use YYYY-MM-DD format." ELSE ""
    ELSE IF a.due_date # "None" /\ ~FromIsoFormat(a.due_date).ok
         THEN "Invalid date format. Use YYYY-MM-DD format."
         ELSE IF a.status \notin {"None", "needsAction", "completed"}
         THEN "Invalid status. Use 'needsAction' or 'completed'." ELSE ""

\* the body sent with insert or patch
TaskBody(t, a) ==
    [due |-> IF a.due_date \in {"None", ""} THEN "None"
             ELSE FromIsoFormat(a.due_date).iso \o "Z",
     status |-> IF t = "update_task" THEN a.status ELSE "None",
     taskListId |-> DefaultTaskListId]

\* the filter loop of search_tasks_by_period from item i on
RECURSIVE MatchingTasks(_, _, _, _, _, _)
MatchingTasks(all_tasks, i, start_dt, end_dt, limit, acc) ==
    IF i > Len(all_tasks) THEN acc
    ELSE LET due == all_tasks[i].due
             due_dt == ParseDue(due)
         IN  IF due # "None" /\ due_dt.ok /\ start_dt <= due_dt.day /\ due_dt.day <= end_dt
             THEN LET found == Append(acc, [id |-> all_tasks[i].id, due |-> due,
                                            taskListId |-> DefaultTaskListId])
                  IN  IF Len(found) >= limit THEN found
                      ELSE MatchingTasks(all_tasks, i + 1, start_dt, end_dt, limit, found)
             ELSE MatchingTasks(all_tasks, i + 1, start_dt, end_dt, limit, acc)

\* the lists of items tasks().list can answer with
TaskLists(page_size) ==
    LET dues == SeqsUpTo(TaskDues, Min2(page_size, MaxTasks))
    IN  {[i \in 1..Len(ds) |-> [id |-> i, due |-> ds[i]]] : ds \in dues}

\* queries of search_tasks, and the titles and notes of the items ("" when
\* the item has none)
TaskQueries == {<<>>, <<"a">>, <<"A">>}
TaskTitles == {<<"A">>, <<"b">>}
TaskNotes == {<<>>, <<"a">>}

\* the lists of items tasks().list can answer search_tasks with: at most
\* page_size items; a maxResults of 0 is no page size and leaves the size of
\* the page to the service
TitledTaskLists(page_size) ==
    LET items == SeqsUpTo(TaskTitles \X TaskNotes,
                          IF page_size >= 1 THEN Min2(page_size, MaxTasks) ELSE MaxTasks)
    IN  {[i \in 1..Len(its) |-> [id |-> i, title |-> its[i][1], notes |-> its[i][2]]] :
            its \in items}

\* query_lower in title or query_lower in notes
TaskMatchesQuery(task, q) ==
    \/ StrFind(Lower(task.title), Lower(q), 0) # -1
    \/ StrFind(Lower(task.notes), Lower(q), 0) # -1

\* the filter loop of search_tasks from item i on
RECURSIVE TasksMatchingQuery(_, _, _, _, _)
TasksMatchingQuery(all_tasks, i, q, limit, acc) ==
    IF i > Len(all_tasks) THEN acc
    ELSE IF TaskMatchesQuery(all_tasks[i], q)
    THEN LET found == Append(acc, [id |-> all_tasks[i].id, title |-> all_tasks[i].title,
                                   notes |-> all_tasks[i].notes,
                                   taskListId |-> DefaultTaskListId])
         IN  IF Len(found) >= limit THEN found
             ELSE TasksMatchingQuery(all_tasks, i + 1, q, limit, found)
    ELSE TasksMatchingQuery(all_tasks, i + 1, q, limit, acc)

InitTasks ==
    /\ pc = "idle"
    /\ tool = "none"
    /\ args = NoArgs
    /\ tasks = <<>>
    /\ max_results = 0
    /\ token_json \in {"absent", "valid", "expired", "invalid"}
    /\ response = NoResponse
    /\ calls = NoCalls
    /\ search_term = <<>>
    /\ case_sensitive = FALSE
    /\ use_regex = FALSE
    /\ folder_id = "None"
    /\ query = NoQuery
    /\ files = <<>>
    /\ content_info = <<>>
    /\ search_results = <<>>
    /\ content = <<>>
    /\ matches = <<>>
    /\ snippet_len = 0
    /\ snippet_list = <<>>
    /\ auth_pc = NoThreads
    /\ creds = NoThreads
    /\ in_flight = {}
    /\ env = Unset
    /\ validated_calendar_ids = <<>>
    /\ all_events = <<>>
    /\ store = NoStore

\* the variables no tasks tool touches
drive_vars == <<search_term, case_sensitive, use_regex, folder_id, query, files,
                content_info, search_results, content, matches, snippet_len,
                snippet_list, auth_pc, creds, in_flight, env,
                validated_calendar_ids, all_events, store>>

\* create_task up to its first await
CreateTask ==
    /\ pc = "idle"
    /\ \E due \in DateStrings :
          args' = [NoArgs EXCEPT !.due_date = due]
    /\ tool' = "create_task"
    /\ pc' = "get_credentials"
    /\ UNCHANGED <<max_results, token_json, response, calls, tasks>>
    /\ UNCHANGED drive_vars

\* update_task up to its first await
UpdateTask ==
    /\ pc = "idle"
    /\ \E due \in DateStrings, status \in Statuses :
          args' = [NoArgs EXCEPT !.due_date = due, !.status = status]
    /\ tool' = "update_task"
    /\ pc' = "get_credentials"
    /\ UNCHANGED <<max_results, token_json, response, calls, tasks>>
    /\ UNCHANGED drive_vars

\* search_tasks_by_period up to its first await
SearchTasksByPeriod ==
    /\ pc = "idle"
    /\ \E start \in DateStrings \ {"None"}, end \in DateStrings \ {"None"} :
          args' = [NoArgs EXCEPT !.start_date = start, !.end_date = end]
    /\ \E mr \in {1, DefaultTaskMaxResults} : max_results' = mr
    /\ tool' = "search_tasks_by_period"
    /\ pc' = "get_credentials"
    /\ UNCHANGED <<token_json, response, calls, tasks>>
    /\ UNCHANGED drive_vars

\* build("tasks", "v1", credentials=creds), inside the try
TasksBuild ==
    /\ pc = "build"
    /\ tool \in TasksTools
    /\ \/ /\ calls' = Called("build", 0, "ok")
          /\ pc' = IF tool \in {"search_tasks_by_period", "search_tasks"}
                   THEN "list_tasks" ELSE "body"
          /\ UNCHANGED response
       \/ /\ calls' = Called("build", 0, "HttpError")
          /\ response' = HttpErrorResponse
          /\ pc' = "done"
       \/ /\ calls' = Called("build", 0, "Exception")
          /\ response' = Raised("Exception")
          /\ pc' = "done"
    /\ UNCHANGED <<tool, args, max_results, token_json, tasks>>
    /\ UNCHANGED drive_vars

\* create_task and update_task preparing the body: an invalid due_date or
\* status returns the error here
PrepareBody ==
    /\ pc = "body"
    /\ IF TaskBodyError(tool, args) # ""
       THEN /\ response' = ErrorResponse(TaskBodyError(tool, args))
            /\ pc' = "done"
       ELSE /\ pc' = IF tool = "create_task" THEN "insert" ELSE "patch"
            /\ UNCHANGED response
    /\ UNCHANGED <<tool, args, max_results, token_json, calls, tasks>>
    /\ UNCHANGED drive_vars

\* tasks().insert(tasklist=..., body=task_body).execute()
InsertTask ==
    /\ pc = "insert"
    /\ \/ /\ calls' = Called("insert", 0, "ok")
          /\ response' = [NoResponse EXCEPT !.kind = "success",
                                            !.results = <<TaskBody(tool, args)>>]
       \/ /\ calls' = Called("insert", 0, "HttpError")
          /\ response' = HttpErrorResponse
       \/ /\ calls' = Called("insert", 0, "Exception")
          /\ response' = Raised("Exception")
    /\ pc' = "done"
    /\ UNCHANGED <<tool, args, max_results, token_json, tasks>>
    /\ UNCHANGED drive_vars

\* tasks().patch(tasklist=..., task=task_id, body=update_body).execute()
PatchTask ==
    /\ pc = "patch"
    /\ \/ /\ calls' = Called("patch", 0, "ok")
          /\ response' = [NoResponse EXCEPT !.kind = "success",
                                            !.results = <<TaskBody(tool, args)>>]
       \/ /\ calls' = Called("patch", 0, "HttpError")
          /\ response' = HttpErrorResponse
       \/ /\ calls' = Called("patch", 0, "Exception")
          /\ response' = Raised("Exception")
    /\ pc' = "done"
    /\ UNCHANGED <<tool, args, max_results, token_json, tasks>>
    /\ UNCHANGED drive_vars

\* tasks().list(tasklist=..., maxResults=max_results, ...).execute()
ListTasks ==
    /\ pc = "list_tasks"
    /\ \/ /\ tasks' \in IF tool = "search_tasks" THEN TitledTaskLists(max_results)
                       ELSE TaskLists(max_results)
          /\ calls' = Called("list_tasks", 0, "ok")
          /\ pc' = "filter"
          /\ UNCHANGED response
       \/ /\ calls' = Called("list_tasks", 0, "HttpError")
          /\ response' = HttpErrorResponse
          /\ pc' = "done"
          /\ UNCHANGED tasks
       \/ /\ calls' = Called("list_tasks", 0, "Exception")
          /\ response' = Raised("Exception")
          /\ pc' = "done"
          /\ UNCHANGED tasks
    /\ UNCHANGED <<tool, args, max_results, token_json>>
    /\ UNCHANGED drive_vars

\* search_tasks_by_period after the list: the two fromisoformat calls, which
\* no handler of the tool catches, then the filter loop and the return
FilterByPeriod ==
    /\ pc = "filter"
    /\ tool = "search_tasks_by_period"
    /\ LET start_dt == FromIsoFormat(args.start_date)
           end_dt == FromIsoFormat(args.end_date)
       IN  response' =
              IF ~start_dt.ok \/ ~end_dt.ok THEN Raised("ValueError")
              ELSE [NoResponse EXCEPT
                       !.kind = "success",
                       !.results = MatchingTasks(tasks, 1, start_dt.day, end_dt.day,
                                                 max_results, <<>>)]
    /\ pc' = "done"
    /\ UNCHANGED <<tool, args, max_results, token_json, calls, tasks>>
    /\ UNCHANGED drive_vars

\* search_tasks up to its first await
SearchTasks ==
    /\ pc = "idle"
    /\ \E q \in TaskQueries : args' = [NoArgs EXCEPT !.query = q]
    /\ \E mr \in {0, 1, DefaultTaskMaxResults} : max_results' = mr
    /\ tool' = "search_tasks"
    /\ pc' = "get_credentials"
    /\ UNCHANGED <<token_json, response, calls, tasks>>
    /\ UNCHANGED drive_vars

\* search_tasks after the list: the filter loop and the return
FilterByQuery ==
    /\ pc = "filter"
    /\ tool = "search_tasks"
    /\ response' = [NoResponse EXCEPT
                       !.kind = "success",
                       !.results = TasksMatchingQuery(tasks, 1, args.query,
                                                      max_results, <<>>)]
    /\ pc' = "done"
    /\ UNCHANGED <<tool, args, max_results, token_json, calls, tasks>>
    /\ UNCHANGED drive_vars

NextTasks ==
    \/ SearchTasks
    \/ FilterByQuery
    \/ CreateTask
    \/ UpdateTask
    \/ SearchTasksByPeriod
    \/ GetCredentials
    \/ TasksBuild
    \/ PrepareBody
    \/ InsertTask
    \/ PatchTask
    \/ ListTasks
    \/ FilterByPeriod
    \/ Finish

SpecTasks == InitTasks /\ [][NextTasks]_vars

(***************************************************************************)
(* Properties of the tasks tools (SpecTasks)                               *)
(***************************************************************************)
\* a due_date that was given and is not a valid ISO date
InvalidDueDate == args.due_date # "None" /\ ~FromIsoFormat(args.due_date).ok
\* a status that was given and is neither needsAction nor completed
InvalidStatus == args.status \notin {"None", "needsAction", "completed"}

\* C14: create_task or update_task called with a due_date that is not a
\* valid ISO date, or update_task called with a status other than
\* needsAction and completed, returns an {"error": ...} payload and is
\* rejected before any remote call: no credential acquisition and no insert
\* or patch has been issued.
C14_InvalidTaskRejectedBeforeRemoteCalls ==
    (/\ pc = "done"
     /\ \/ tool = "create_task" /\ InvalidDueDate
        \/ tool = "update_task" /\ (InvalidDueDate \/ InvalidStatus)) =>
        /\ response.kind = "error"
        /\ calls = <<>>

\* C15: search_tasks_by_period called with a start_date or end_date that is
\* not a valid ISO date returns an {"error": ...} payload instead of raising
\* and is rejected before any remote call: the task list is not fetched.
C15_InvalidPeriodRejectedBeforeRemoteCalls ==
    (/\ pc = "done" /\ tool = "search_tasks_by_period"
     /\ ~FromIsoFormat(args.start_date).ok \/ ~FromIsoFormat(args.end_date).ok) =>
        /\ response.kind = "error"
        /\ calls = <<>>

(***************************************************************************)
(* SpecAuth: get_credentials run by two tool invocations at once, each in  *)
(* its own worker thread (asyncio.to_thread).  The contents of token.json  *)
(* are the credentials they serialise: "valid", "expired" (with a refresh  *)
(* token), "invalid" (neither valid nor refreshable), those a thread       *)
(* obtained, "empty" once opened for writing, "absent" when no file.       *)
(***************************************************************************)
Refreshed(t) == <<"refreshed1", "refreshed2">>[t]
Authorized(t) == <<"authorized1", "authorized2">>[t]
\* creds.valid
Valid(c) == c = "valid" \/ \E t \in Threads : c \in {Refreshed(t), Authorized(t)}
\* the positions from the read of token.json to the end of the write
BetweenReadAndWrite == {"check", "refresh", "flow", "open", "write"}

InitAuth ==
    /\ auth_pc = [t \in Threads |-> "start"]
    /\ creds = [t \in Threads |-> "None"]
    /\ in_flight = {}
    /\ env = Unset
    /\ validated_calendar_ids = <<>>
    /\ all_events = <<>>
    /\ store = NoStore
    /\ token_json \in {"absent", "valid", "expired", "invalid"}
    /\ pc = "get_credentials"
    /\ tool = "get_credentials"
    /\ search_term = <<>>
    /\ case_sensitive = FALSE
    /\ use_regex = FALSE
    /\ folder_id = "None"
    /\ max_results = 0
    /\ query = NoQuery
    /\ files = <<>>
    /\ content_info = <<>>
    /\ search_results = <<>>
    /\ response = NoResponse
    /\ calls = NoCalls
    /\ content = <<>>
    /\ matches = <<>>
    /\ args = NoArgs
    /\ tasks = <<>>
    /\ snippet_len = 0
    /\ snippet_list = <<>>

\* the variables get_credentials does not touch
auth_others == <<pc, tool, search_term, case_sensitive, use_regex, folder_id,
                 max_results, query, files, content_info, search_results, response,
                 calls, content, matches, args, tasks, snippet_len, snippet_list,
                 in_flight, env, validated_calendar_ids, all_events, store>>

\* creds = None; if os.path.exists("token.json")
Exists(t) ==
    /\ auth_pc[t] = "start"
    /\ auth_pc' = [auth_pc EXCEPT ![t] = IF token_json = "absent" THEN "check" ELSE "load"]
    /\ UNCHANGED <<creds, token_json, auth_others>>

\* the read of token.json held back while the other thread is between its
\* read and the end of its write
LoadUnderLock(t) ==
    /\ auth_pc[t] = "load"
    /\ \A u \in Threads \ {t} : auth_pc[u] \notin BetweenReadAndWrite
    /\ IF token_json = "empty"
       THEN /\ auth_pc' = [auth_pc EXCEPT ![t] = "raised"]
            /\ UNCHANGED creds
       ELSE /\ creds' = [creds EXCEPT ![t] = token_json]
            /\ auth_pc' = [auth_pc EXCEPT ![t] = "check"]
    /\ UNCHANGED <<token_json, auth_others>>

\* Credentials.from_authorized_user_file("token.json", SCOPES); a file with
\* nothing in it does not parse
Load(t) ==
    /\ auth_pc[t] = "load"
    /\ IF token_json = "empty"
       THEN /\ auth_pc' = [auth_pc EXCEPT ![t] = "raised"]
            /\ UNCHANGED creds
       ELSE /\ creds' = [creds EXCEPT ![t] = token_json]
            /\ auth_pc' = [auth_pc EXCEPT ![t] = "check"]
    /\ UNCHANGED <<token_json, auth_others>>

\* the test sending valid credentials to the rewrite of token.json too
CheckAlwaysRewrites(t) ==
    /\ auth_pc[t] = "check"
    /\ auth_pc' = [auth_pc EXCEPT ![t] =
                      IF Valid(creds[t]) THEN "open"
                      ELSE IF creds[t] = "expired" THEN "refresh" ELSE "flow"]
    /\ UNCHANGED <<creds, token_json, auth_others>>

\* if not creds or not creds.valid / if creds and creds.expired and
\* creds.refresh_token
Check(t) ==
    /\ auth_pc[t] = "check"
    /\ auth_pc' = [auth_pc EXCEPT ![t] =
                      IF Valid(creds[t]) THEN "return"
                      ELSE IF creds[t] = "expired" THEN "refresh" ELSE "flow"]
    /\ UNCHANGED <<creds, token_json, auth_others>>

\* creds.refresh(Request()), which may raise
Refresh(t) ==
    /\ auth_pc[t] = "refresh"
    /\ \/ /\ creds' = [creds EXCEPT ![t] = Refreshed(t)]
          /\ auth_pc' = [auth_pc EXCEPT ![t] = "open"]
       \/ /\ auth_pc' = [auth_pc EXCEPT ![t] = "raised"]
          /\ UNCHANGED creds
    /\ UNCHANGED <<token_json, auth_others>>

\* InstalledAppFlow...run_local_server(port=0), which may raise
Flow(t) ==
    /\ auth_pc[t] = "flow"
    /\ \/ /\ creds' = [creds EXCEPT ![t] = Authorized(t)]
          /\ auth_pc' = [auth_pc EXCEPT ![t] = "open"]
       \/ /\ auth_pc' = [auth_pc EXCEPT ![t] = "raised"]
          /\ UNCHANGED creds
    /\ UNCHANGED <<token_json, auth_others>>

\* open("token.json", "w"): the file is truncated
Open(t) ==
    /\ auth_pc[t] = "open"
    /\ token_json' = "empty"
    /\ auth_pc' = [auth_pc EXCEPT ![t] = "write"]
    /\ UNCHANGED <<creds, auth_others>>

\* token.write(creds.to_json()) and the close of the with block
Write(t) ==
    /\ auth_pc[t] = "write"
    /\ token_json' = creds[t]
    /\ auth_pc' = [auth_pc EXCEPT ![t] = "return"]
    /\ UNCHANGED <<creds, auth_others>>

\* return creds
Return(t) ==
    /\ auth_pc[t] = "return"
    /\ auth_pc' = [auth_pc EXCEPT ![t] = "returned"]
    /\ UNCHANGED <<creds, token_json, auth_others>>

\* the next statement of thread t
AuthStep(t) ==
    \/ Exists(t)
    \/ Load(t)
    \/ Check(t)
    \/ Refresh(t)
    \/ Flow(t)
    \/ Open(t)
    \/ Write(t)
    \/ Return(t)

NextAuth == \E t \in Threads : AuthStep(t)

SpecAuth == InitAuth /\ [][NextAuth]_vars

(***************************************************************************)
(* Properties of get_credentials (SpecAuth)                                *)
(***************************************************************************)
\* C18: nothing excludes two invocations from the credential refresh: a
\* thread that has not left get_credentials can always take its next
\* statement, wherever the other thread is, so that two invocations that both
\* loaded the expired token can both be between reading token.json and
\* finishing their write.
C18_NoMutualExclusion ==
    \A t \in Threads :
        auth_pc[t] \notin {"returned", "raised"} => ENABLED AuthStep(t)

\* both threads loaded the expired token, refreshed it and opened token.json
\* for writing; neither has written yet
C18_Witness ==
    /\ \A t \in Threads : auth_pc[t] = "write" /\ creds[t] = Refreshed(t)
    /\ token_json = "empty"

\* C26: for every span with 0 <= start <= end <= len(content) and every
\* snippet_length >= 0 the snippet is position-accurate and bounded:
\* 0 <= match_start <= match_end <= len(snippet text), the snippet text
\* between match_start and match_end is the content between start and end,
\* and the snippet text is no longer than the span plus twice the integer
\* half of snippet_length.
C26_SnippetPositionsAccurate ==
    pc = "snippets_done" =>
        \A i \in 1..Len(snippet_list) :
            LET sn == snippet_list[i]
            IN  /\ 0 <= sn.match_start /\ sn.match_start <= sn.match_end
                /\ sn.match_end <= Len(sn.text)
                /\ SubSeq(sn.text, sn.match_start + 1, sn.match_end) =
                      SubSeq(content, matches[i][1] + 1, matches[i][2])
                /\ Len(sn.text) <= (matches[i][2] - matches[i][1])
                                      + 2 * (snippet_len \div 2)

\* a span at the end of the text whose snippet starts after the start of
\* the text
C26_Witness ==
    /\ pc = "snippets_done" /\ snippet_len = 2
    /\ content = <<"a", "b", "a">>
    /\ matches = << <<2, 3>> >>
    /\ snippet_list[1].text = <<"b", "a">>
    /\ snippet_list[1].match_start = 1 /\ snippet_list[1].match_end = 2

\* C27: the literal scan of _find_content_matches ends for every text and
\* term, the empty term and terms longer than the text included, and it
\* returns at most len(text) + 1 spans, whose starts strictly increase.
C27_LiteralSpanCountBounded ==
    (Found /\ ~use_regex) =>
        /\ Len(matches) <= Len(content) + 1
        /\ \A i \in 1..(Len(matches) - 1) : matches[i][1] < matches[i + 1][1]

\* C28: every mime type of the default allow-list of
\* get_supported_content_search_types (Google Docs, PDF, text/plain,
\* text/csv, DOCX) is handled by an extraction branch of
\* _extract_file_content_for_search: a candidate of such a type has its
\* content requested, so that it can have matches.
C28_AllowListTypesAreExtracted ==
    (/\ Extracted
     /\ \E k \in 1..Len(SupportedContentSearchTypes) :
           files[1].mimeType = SupportedContentSearchTypes[k]) =>
        /\ content_info[1].branch # "none"
        /\ Len(calls) = 1 /\ calls[1].op = "media"

\* how far a position is into get_credentials
AuthRank(p) ==
    CASE p = "start" -> 0
      [] p = "load" -> 1
      [] p = "check" -> 2
      [] p \in {"refresh", "flow"} -> 3
      [] p = "open" -> 4
      [] p = "write" -> 5
      [] p = "return" -> 6
      [] OTHER -> 7

\* C29: an invocation of get_credentials changes token.json only by the
\* rewrite, which it runs at most once and only with credentials it has
\* just obtained by a successful refresh or authorization: loading, testing,
\* refreshing, authorizing, failing and returning leave the file as it is,
\* and the credentials it returns are valid ones it loaded or the ones it
\* wrote.
C29_TokenWrittenOnceAfterSuccess ==
    [][\A t \in Threads :
          auth_pc'[t] # auth_pc[t] =>
             /\ AuthRank(auth_pc'[t]) > AuthRank(auth_pc[t])
             /\ auth_pc[t] \notin {"open", "write"} => token_json' = token_json
             /\ auth_pc[t] = "open" =>
                   /\ creds[t] \in {Refreshed(t), Authorized(t)}
                   /\ token_json' = "empty"
             /\ auth_pc[t] = "write" =>
                   /\ creds[t] \in {Refreshed(t), Authorized(t)}
                   /\ token_json' = creds[t]
             /\ auth_pc'[t] = "raised" => auth_pc[t] \in {"load", "refresh", "flow"}
             /\ auth_pc'[t] = "returned" =>
                   /\ Valid(creds[t])
                   /\ creds'[t] = creds[t]]_vars

\* one invocation, alone, refreshed the expired token, wrote it and returned it
C29_Witness ==
    /\ auth_pc[1] = "returned" /\ auth_pc[2] = "start"
    /\ creds[1] = Refreshed(1)
    /\ token_json = Refreshed(1)

\* C30: with invocations running get_credentials at once, no read of
\* token.json happens while another invocation has truncated the file and not
\* yet finished writing it: every read finds the whole previous or the whole
\* new contents.
C30_NoReadOfTruncatedFile ==
    [][\A t \in Threads :
          (auth_pc[t] = "load" /\ auth_pc'[t] # "load") => token_json # "empty"]_vars

(***************************************************************************)
(* Properties of the loop over the candidates (Spec)                       *)
(***************************************************************************)
\* C21: within one search_drive_by_content invocation the candidates are
\* processed one after the other in the order the index returned them: at
\* most one media request is in flight, it is the request of the candidate
\* right after those whose extraction, scan and snippets are finished, and
\* the finished candidates are the first ones of the index's list, in order.
C21_CandidatesProcessedSequentially ==
    Drive =>
        /\ Cardinality(in_flight) <= 1
        /\ Len(content_info) <= Len(files)
        /\ \A id \in in_flight :
              /\ Len(content_info) < Len(files)
              /\ id = files[Len(content_info) + 1].id
        /\ \A i \in 1..Len(content_info) : content_info[i].id = files[i].id
        /\ \A i \in CallsOf("media") : \A j \in CallsOf("media") :
              i < j => calls[i].id < calls[j].id

\* the request of the second candidate is in flight after the first
\* candidate has been fetched, scanned and given its snippets
C21_Witness ==
    /\ Drive /\ pc = "extract"
    /\ Len(files) = 2 /\ Len(content_info) = 1
    /\ content_info[1].has_matches /\ content_info[1].snippets # <<>>
    /\ in_flight = {2}

(***************************************************************************)
(* Properties of search_tasks (SpecTasks)                                  *)
(***************************************************************************)
\* C25: search_tasks returns, in the order of the service's answer, only
\* tasks whose title or notes contain the query without regard to case, each
\* tagged with the validated taskListId, and never more than max_results
\* tasks, for every max_results >= 0, 0 included.
C25_SearchTasksFilteredAndBounded ==
    (pc = "done" /\ tool = "search_tasks" /\ response.kind = "success") =>
        LET found == response.results
        IN  /\ \A i \in 1..Len(found) :
                  /\ \E k \in 1..Len(tasks) :
                        /\ tasks[k].id = found[i].id
                        /\ \/ StrFind(Lower(tasks[k].title), Lower(args.query), 0) # -1
                           \/ StrFind(Lower(tasks[k].notes), Lower(args.query), 0) # -1
                  /\ found[i].taskListId = DefaultTaskListId
            /\ \A i \in 1..(Len(found) - 1) : found[i].id < found[i + 1].id
            /\ Len(found) <= max_results

(***************************************************************************)
(* Calendar IDs: get_default_calendar_ids and validate_calendar_ids.  An   *)
(* ID is a string; "primary" is written as one character.                  *)
(***************************************************************************)
\* str.split(','): the pieces of s between the commas
RECURSIVE SplitComma(_, _, _)
SplitComma(s, piece, acc) ==
    IF s = <<>> THEN Append(acc, piece)
    ELSE IF Head(s) = "," THEN SplitComma(Tail(s), <<>>, Append(acc, piece))
    ELSE SplitComma(Tail(s), Append(piece, Head(s)), acc)

\* [cal.strip() for cal in pieces if cal.strip()]
RECURSIVE StrippedNonEmpty(_)
StrippedNonEmpty(pieces) ==
    IF pieces = <<>> THEN <<>>
    ELSE IF Strip(Head(pieces)) = <<>> THEN StrippedNonEmpty(Tail(pieces))
    ELSE <<Strip(Head(pieces))>> \o StrippedNonEmpty(Tail(pieces))

\* get_default_calendar_ids() when os.getenv gives e
DefaultCalendarIds(e) == StrippedNonEmpty(SplitComma(e, <<>>, <<>>))

\* the loop that compares the IDs as given and keeps them as given
RECURSIVE DedupeUnstripped(_, _, _)
DedupeUnstripped(calendar_ids, seen, validated_ids) ==
    IF calendar_ids = <<>> THEN validated_ids
    ELSE LET cal == Head(calendar_ids)
         IN  IF Strip(cal) # <<>> /\ cal \notin seen
             THEN DedupeUnstripped(Tail(calendar_ids), seen \cup {cal},
                                   Append(validated_ids, cal))
             ELSE DedupeUnstripped(Tail(calendar_ids), seen, validated_ids)

\* the for loop of validate_calendar_ids
RECURSIVE Dedupe(_, _, _)
Dedupe(calendar_ids, seen, validated_ids) ==
    IF calendar_ids = <<>> THEN validated_ids
    ELSE LET cal_stripped == Strip(Head(calendar_ids))
         IN  IF cal_stripped # <<>> /\ cal_stripped \notin seen
             THEN Dedupe(Tail(calendar_ids), seen \cup {cal_stripped},
                         Append(validated_ids, cal_stripped))
             ELSE Dedupe(Tail(calendar_ids), seen, validated_ids)

\* validate_calendar_ids(calendar_ids) when os.getenv gives e
ValidateCalendarIds(calendar_ids, e) ==
    IF calendar_ids = <<>> THEN DefaultCalendarIds(e)
    ELSE LET validated_ids == Dedupe(calendar_ids, {}, <<>>)
         IN  IF validated_ids = <<>> THEN DefaultCalendarIds(e) ELSE validated_ids

(***************************************************************************)
(* SpecValidate: validate_calendar_ids on every input within the bounds    *)
(***************************************************************************)
MaxCalendarIds == 3
CalendarIdStrings == {<<>>, <<" ">>, <<"a">>, <<" ", "a">>, <<"b", " ">>}
EnvValues == {Unset, <<"a", ",", " ", "b">>, <<"b", ",", "b">>, <<",", " ">>}

InitValidate ==
    /\ pc = "validate"
    /\ tool = "validate_calendar_ids"
    /\ \E ids \in SeqsUpTo(CalendarIdStrings, MaxCalendarIds) :
          args = [NoArgs EXCEPT !.calendar_ids = [is_none |-> FALSE, list |-> ids]]
    /\ env \in EnvValues
    /\ validated_calendar_ids = <<>>
    /\ search_term = <<>>
    /\ case_sensitive = FALSE
    /\ use_regex = FALSE
    /\ folder_id = "None"
    /\ max_results = 0
    /\ token_json = "valid"
    /\ query = NoQuery
    /\ files = <<>>
    /\ content_info = <<>>
    /\ search_results = <<>>
    /\ response = NoResponse
    /\ calls = NoCalls
    /\ content = <<>>
    /\ matches = <<>>
    /\ tasks = <<>>
    /\ snippet_len = 0
    /\ snippet_list = <<>>
    /\ auth_pc = NoThreads
    /\ creds = NoThreads
    /\ in_flight = {}
    /\ all_events = <<>>
    /\ store = NoStore

Validate ==
    /\ pc = "validate"
    /\ validated_calendar_ids' = ValidateCalendarIds(args.calendar_ids.list, env)
    /\ pc' = "validated"
    /\ UNCHANGED <<tool, search_term, case_sensitive, use_regex, folder_id,
                   max_results, token_json, query, files, content_info,
                   search_results, response, calls, content, matches, args, tasks,
                   snippet_len, snippet_list, auth_pc, creds, in_flight, env,
                   all_events, store>>

NextValidate == Validate

SpecValidate == InitValidate /\ [][NextValidate]_vars

(***************************************************************************)
(* Properties of validate_calendar_ids (SpecValidate)                      *)
(***************************************************************************)
\* positions of the input whose stripped ID is not blank and occurs at no
\* earlier position
FirstOccurrences(ids) ==
    {i \in 1..Len(ids) :
        /\ Strip(ids[i]) # <<>>
        /\ \A j \in 1..(i - 1) : Strip(ids[j]) # Strip(ids[i])}

\* C22: validate_calendar_ids returns the input IDs stripped of surrounding
\* whitespace, blank entries removed, only the first occurrence of each ID
\* kept, in input order; when the input is empty or nothing remains it
\* returns the configured default calendar IDs, ["primary"] when
\* DEFAULT_CALENDAR_IDS is unset.
C22_ValidatedIdsCleanedAndDeduplicated ==
    pc = "validated" =>
        LET ids == args.calendar_ids.list
            firsts == FirstOccurrences(ids)
        IN  IF firsts = {}
            THEN /\ validated_calendar_ids = DefaultCalendarIds(env)
                 /\ env = Unset => validated_calendar_ids = << <<"primary">> >>
            ELSE /\ Len(validated_calendar_ids) = Cardinality(firsts)
                 /\ \A i \in firsts :
                       validated_calendar_ids[Cardinality({j \in firsts : j < i}) + 1]
                          = Strip(ids[i])

\* an input with a blank entry and the same ID given twice with different
\* surrounding whitespace
C22_Witness ==
    /\ pc = "validated"
    /\ args.calendar_ids.list = << <<" ", "a">>, <<" ">>, <<"a">> >>
    /\ validated_calendar_ids = << <<"a">> >>

(***************************************************************************)
(* SpecCal: the tools list_calendar_events, search_calendar_events and     *)
(* get_calendar_event_details.  The remote service holds, per calendar,    *)
(* its events in the order of their start.                                 *)
(***************************************************************************)
CalendarNames == {<<"primary">>, <<"a">>, <<"b">>}
Standup == [id |-> "e1", start |-> 1, summary |-> "standup"]
Lunch == [id |-> "e2", start |-> 2, summary |-> "lunch"]
Review == [id |-> "e3", start |-> 0, summary |-> "standup"]
EventLists == {<<>>, <<Standup>>, <<Review, Lunch>>}
Stores == [CalendarNames -> EventLists]
EventIds == {"e1", "e2"}
CalendarTools == {"list_calendar_events", "search_calendar_events",
                  "get_calendar_event_details"}
CalendarIdLists ==
    {NoList} \cup
        {[is_none |-> FALSE, list |-> l] :
            l \in {<<>>, << <<"a">> >>, << <<"b", " ">>, <<"a">> >>,
                   << <<" ", "a">>, <<"a">> >>}}
CalendarEnvValues == {Unset, <<"a", ",", " ", "b">>, <<",", " ">>}

\* the default of the parameter max_results of list_calendar_events
DefaultEventMaxResults == 100

\* the first n elements of s
FirstN(s, n) == SubSeq(s, 1, Min2(n, Len(s)))

\* what the service answers events().list(calendarId, q, maxResults) with
EventsAnswer(st, calendar_id, q, page_size) ==
    FirstN(SelectSeq(st[calendar_id], LAMBDA ev : q = "None" \/ ev.summary = q),
           page_size)

\* the inner loop tagging every event with the last of the validated IDs
TaggedWithLastCalendar(events, calendar_id) ==
    [i \in 1..Len(events) |->
        [id |-> events[i].id, start |-> events[i].start,
         summary |-> events[i].summary,
         calendarId |-> validated_calendar_ids[Len(validated_calendar_ids)]]]

\* the inner loop: event["calendarId"] = calendar_id for each event
Tagged(events, calendar_id) ==
    [i \in 1..Len(events) |->
        [id |-> events[i].id, start |-> events[i].start,
         summary |-> events[i].summary, calendarId |-> calendar_id]]

\* list.sort(key=start): a stable sort by start
RECURSIVE InsertByStart(_, _)
InsertByStart(sorted, ev) ==
    IF sorted = <<>> THEN <<ev>>
    ELSE IF sorted[Len(sorted)].start <= ev.start THEN Append(sorted, ev)
    ELSE Append(InsertByStart(SubSeq(sorted, 1, Len(sorted) - 1), ev),
                sorted[Len(sorted)])

RECURSIVE SortByStart(_)
SortByStart(events) ==
    IF events = <<>> THEN <<>>
    ELSE InsertByStart(SortByStart(SubSeq(events, 1, Len(events) - 1)),
                       events[Len(events)])

\* the events().list requests issued so far
EventsListCalls == SelectSeq(calls, LAMBDA c : c.op = "events_list")

InitCal ==
    /\ pc = "idle"
    /\ tool = "none"
    /\ args = NoArgs
    /\ env \in CalendarEnvValues
    /\ store \in Stores
    /\ validated_calendar_ids = <<>>
    /\ all_events = <<>>
    /\ max_results = 0
    /\ token_json \in {"valid", "expired"}
    /\ response = NoResponse
    /\ calls = NoCalls
    /\ search_term = <<>>
    /\ case_sensitive = FALSE
    /\ use_regex = FALSE
    /\ folder_id = "None"
    /\ query = NoQuery
    /\ files = <<>>
    /\ content_info = <<>>
    /\ search_results = <<>>
    /\ content = <<>>
    /\ matches = <<>>
    /\ tasks = <<>>
    /\ snippet_len = 0
    /\ snippet_list = <<>>
    /\ auth_pc = NoThreads
    /\ creds = NoThreads
    /\ in_flight = {}

\* the variables no calendar tool touches
cal_others == <<search_term, case_sensitive, use_regex, folder_id, query, files,
                content_info, search_results, content, matches, tasks, snippet_len,
                snippet_list, auth_pc, creds, in_flight, env, store>>

\* list_calendar_events up to its first await
ListCalendarEvents ==
    /\ pc = "idle"
    /\ \E ids \in CalendarIdLists, qq \in {"None", "standup"}, st \in {"None", "t0"} :
          args' = [NoArgs EXCEPT !.calendar_ids = ids, !.q = qq, !.start_time = st,
                                 !.end_time = "t1"]
    /\ \E mr \in {1, DefaultEventMaxResults} : max_results' = mr
    /\ tool' = "list_calendar_events"
    /\ pc' = "get_credentials"
    /\ UNCHANGED <<token_json, response, calls, validated_calendar_ids, all_events>>
    /\ UNCHANGED cal_others

\* search_calendar_events: list_calendar_events(calendar_ids, start_time,
\* end_time, query), max_results left to its default
SearchCalendarEvents ==
    /\ pc = "idle"
    /\ \E ids \in CalendarIdLists, qq \in {"None", "standup"}, st \in {"None", "t0"} :
          args' = [NoArgs EXCEPT !.calendar_ids = ids, !.q = qq, !.start_time = st,
                                 !.end_time = "t1"]
    /\ max_results' = DefaultEventMaxResults
    /\ tool' = "search_calendar_events"
    /\ pc' = "get_credentials"
    /\ UNCHANGED <<token_json, response, calls, validated_calendar_ids, all_events>>
    /\ UNCHANGED cal_others

\* get_calendar_event_details up to its first await
GetCalendarEventDetails ==
    /\ pc = "idle"
    /\ \E ev \in EventIds,
          cal \in {NoId} \cup {[is_none |-> FALSE, id |-> c] : c \in CalendarNames} :
          args' = [NoArgs EXCEPT !.event_id = ev, !.calendar_id = cal]
    /\ tool' = "get_calendar_event_details"
    /\ pc' = "get_credentials"
    /\ UNCHANGED <<max_results, token_json, response, calls, validated_calendar_ids,
                   all_events>>
    /\ UNCHANGED cal_others

\* build("calendar", "v3", credentials=creds), inside the try
CalendarBuild ==
    /\ pc = "build"
    /\ tool \in CalendarTools
    /\ \/ /\ calls' = Called("build", 0, "ok")
          /\ pc' = IF tool = "get_calendar_event_details" THEN "get_event"
                   ELSE "validate_ids"
          /\ UNCHANGED response
       \/ /\ calls' = Called("build", 0, "HttpError")
          /\ response' = HttpErrorResponse
          /\ pc' = "done"
       \/ /\ calls' = Called("build", 0, "Exception")
          /\ response' = Raised("Exception")
          /\ pc' = "done"
    /\ UNCHANGED <<tool, args, max_results, token_json, validated_calendar_ids,
                   all_events>>
    /\ UNCHANGED cal_others

\* calendar_ids defaulted when None, then validate_calendar_ids
ValidateIds ==
    /\ pc = "validate_ids"
    /\ validated_calendar_ids' =
          ValidateCalendarIds(IF args.calendar_ids.is_none THEN DefaultCalendarIds(env)
                              ELSE args.calendar_ids.list, env)
    /\ all_events' = <<>>
    /\ pc' = "list_events"
    /\ UNCHANGED <<tool, args, max_results, token_json, response, calls>>
    /\ UNCHANGED cal_others

\* one pass of the loop over validated_calendar_ids: the events().list
\* request of the next calendar, then the tagging of its events
ListEvents ==
    /\ pc = "list_events"
    /\ Len(EventsListCalls) < Len(validated_calendar_ids)
    /\ LET calendar_id == validated_calendar_ids[Len(EventsListCalls) + 1]
           request == [op |-> "events_list", id |-> 0, outcome |-> "pending",
                       calendarId |-> calendar_id,
                       timeMin |-> args.start_time, timeMax |-> args.end_time,
                       q |-> args.q, maxResults |-> max_results]
       IN  \/ /\ calls' = Append(calls, [request EXCEPT !.outcome = "ok"])
              /\ all_events' = all_events \o
                    Tagged(EventsAnswer(store, calendar_id, args.q, max_results),
                           calendar_id)
              /\ UNCHANGED <<pc, response>>
           \/ /\ calls' = Append(calls, [request EXCEPT !.outcome = "HttpError"])
              /\ response' = HttpErrorResponse
              /\ pc' = "done"
              /\ UNCHANGED all_events
           \/ /\ calls' = Append(calls, [request EXCEPT !.outcome = "Exception"])
              /\ response' = Raised("Exception")
              /\ pc' = "done"
              /\ UNCHANGED all_events
    /\ UNCHANGED <<tool, args, max_results, token_json, validated_calendar_ids>>
    /\ UNCHANGED cal_others

\* after the loop: all_events.sort(...) and the return
ReturnEvents ==
    /\ pc = "list_events"
    /\ Len(EventsListCalls) = Len(validated_calendar_ids)
    /\ all_events' = SortByStart(all_events)
    /\ response' = [NoResponse EXCEPT !.kind = "success",
                                      !.results = SortByStart(all_events)]
    /\ pc' = "done"
    /\ UNCHANGED <<tool, args, max_results, token_json, calls, validated_calendar_ids>>
    /\ UNCHANGED cal_others

\* get_calendar_event_details after build: the choice of the calendar and
\* the events().get request, which the service answers with the event or,
\* when the calendar does not hold it, with an HttpError (404)
GetEvent ==
    /\ pc = "get_event"
    /\ LET default_calendars == DefaultCalendarIds(env)
       IN  IF args.calendar_id.is_none /\ default_calendars = <<>>
           THEN /\ response' = ErrorResponse(
                       "No default calendars configured and no calendar_id provided")
                /\ UNCHANGED calls
           ELSE LET calendar_id == IF args.calendar_id.is_none
                                   THEN default_calendars[1] ELSE args.calendar_id.id
                    held == SelectSeq(store[calendar_id],
                                      LAMBDA ev : ev.id = args.event_id)
                    request == [op |-> "events_get", id |-> 0, outcome |-> "pending",
                                calendarId |-> calendar_id, eventId |-> args.event_id]
                IN  \/ /\ held # <<>>
                       /\ calls' = Append(calls, [request EXCEPT !.outcome = "ok"])
                       /\ response' = [NoResponse EXCEPT !.kind = "success",
                                                         !.results = <<Head(held)>>]
                    \/ /\ held = <<>>
                       /\ calls' = Append(calls, [request EXCEPT !.outcome = "HttpError"])
                       /\ response' = HttpErrorResponse
                    \/ /\ calls' = Append(calls, [request EXCEPT !.outcome = "Exception"])
                       /\ response' = Raised("Exception")
    /\ pc' = "done"
    /\ UNCHANGED <<tool, args, max_results, token_json, validated_calendar_ids,
                   all_events>>
    /\ UNCHANGED cal_others

NextCal ==
    \/ ListCalendarEvents
    \/ SearchCalendarEvents
    \/ GetCalendarEventDetails
    \/ GetCredentials
    \/ CalendarBuild
    \/ ValidateIds
    \/ ListEvents
    \/ ReturnEvents
    \/ GetEvent
    \/ Finish

SpecCal == InitCal /\ [][NextCal]_vars

(***************************************************************************)
(* Properties of the calendar tools (SpecCal)                              *)
(***************************************************************************)
\* whether the calendar holds the event
Holds(calendar_id, event_id) ==
    \E i \in 1..Len(store[calendar_id]) : store[calendar_id][i].id = event_id

\* C23: get_calendar_event_details called without a calendar_id looks the
\* event up in the default calendars in their configured order until it is
\* found: an event held only by the second default calendar is returned.
C23_EventFoundInLaterDefaultCalendar ==
    (/\ pc = "done" /\ tool = "get_calendar_event_details"
     /\ args.calendar_id.is_none
     /\ Len(DefaultCalendarIds(env)) >= 2
     /\ Holds(DefaultCalendarIds(env)[2], args.event_id)
     /\ ~Holds(DefaultCalendarIds(env)[1], args.event_id)
     /\ \A i \in 1..Len(calls) :
           /\ calls[i].outcome # "Exception"
           /\ calls[i].op \in {"get_credentials", "build"} => calls[i].outcome = "ok") =>
        /\ response.kind = "success"
        /\ response.results # <<>>
        /\ response.results[1].id = args.event_id

\* the events the service answers the requests of the calendars ids with,
\* each with the calendar that answered
RECURSIVE AnswersOf(_)
AnswersOf(ids) ==
    IF ids = <<>> THEN <<>>
    ELSE LET answer == EventsAnswer(store, Head(ids), args.q, max_results)
         IN  [i \in 1..Len(answer) |-> [event |-> answer[i], calendar |-> Head(ids)]]
                \o AnswersOf(Tail(ids))

CalendarListing == tool \in {"list_calendar_events", "search_calendar_events"}

\* C24: list_calendar_events issues one events.list request per validated
\* calendar ID, in the validated order, and every event of the returned list
\* carries the calendarId of the calendar whose request returned it;
\* search_calendar_events returns what list_calendar_events returns for the
\* same calendar_ids, time window and query.
C24_OneRequestPerCalendar ==
    CalendarListing =>
        /\ Len(EventsListCalls) <= Len(validated_calendar_ids)
        /\ \A i \in 1..Len(EventsListCalls) :
              /\ EventsListCalls[i].calendarId = validated_calendar_ids[i]
              /\ EventsListCalls[i].q = args.q
              /\ EventsListCalls[i].timeMin = args.start_time
              /\ EventsListCalls[i].timeMax = args.end_time
              /\ EventsListCalls[i].maxResults = max_results
              /\ i < Len(EventsListCalls) => EventsListCalls[i].outcome = "ok"
        /\ (pc = "done" /\ response.kind = "success") =>
              LET answers == AnswersOf(validated_calendar_ids)
                  found == response.results
              IN  /\ Len(EventsListCalls) = Len(validated_calendar_ids)
                  /\ Len(found) = Len(answers)
                  /\ \A i \in 1..Len(found) :
                        \E k \in 1..Len(answers) :
                           /\ answers[k].event.id = found[i].id
                           /\ answers[k].calendar = found[i].calendarId
                  /\ \A k \in 1..Len(answers) :
                        \E i \in 1..Len(found) :
                           /\ answers[k].event.id = found[i].id
                           /\ answers[k].calendar = found[i].calendarId
                  /\ \A i \in 1..(Len(found) - 1) : found[i].start <= found[i + 1].start
                  /\ tool = "search_calendar_events" =>
                        /\ max_results = DefaultEventMaxResults
                        /\ validated_calendar_ids =
                              ValidateCalendarIds(
                                 IF args.calendar_ids.is_none
                                 THEN DefaultCalendarIds(env)
                                 ELSE args.calendar_ids.list, env)

\* a search over two calendars whose events interleave in time
C24_Witness ==
    /\ tool = "search_calendar_events" /\ pc = "done" /\ response.kind = "success"
    /\ validated_calendar_ids = << <<"b">>, <<"a">> >>
    /\ Len(response.results) = 3
    /\ response.results[1].calendarId = <<"a">>
    /\ response.results[2].calendarId = <<"b">>
    /\ response.results[3].calendarId = <<"a">>

====
